---- MODULE Spec2Model ----
(***************************************************************************)
(* A model of the WA-Agent message pipeline:                               *)
(*   - MessageQueue (services/messageQueue.ts): the FIFO retry queue and   *)
(*     the asynchronous continuations of processQueue it leaves pending;   *)
(*   - MessageHandler (services/messageHandler.ts, the rate-limited        *)
(*     variant): rate limit, intent detection and the order dialogue;      *)
(*   - OpenRouterMessageHandler: rate limit, LLM call, tool-call codec.    *)
(* Message texts are sequences of one-character strings, so that           *)
(* String.includes, split, trim and the regular expressions of the code    *)
(* are computed on characters as the code computes them.                   *)
(***************************************************************************)
EXTENDS Integers, Sequences, FiniteSets, Bags, TLC

VARIABLES
    queue,          \* MessageQueue.queue: the item references, head first
    isProcessing,   \* MessageQueue.isProcessing
    items,          \* the QueueItem objects ever created: id -> fields
    flights,        \* bag of pending continuations of processQueue
    calls,          \* id -> number of times item.processor was invoked
    unhandled,      \* number of processQueue promises that rejected
    lastOp,         \* the operation that produced the current state
    sent            \* the messages the WhatsApp transport delivered, in order

VARIABLES
    handlerClass,     \* the handler class the process runs
    customerContexts, \* customerContexts: customer id -> MessageContext
    orders,           \* OrderService.orders, in insertion order
    messageCount,     \* messageCount of the handler
    lastResetTime,    \* lastResetTime of the handler
    now,              \* Date.now()
    isConnected,      \* MCPManager.isConnected
    pending,          \* handleMessage calls waiting for the LLM, oldest first
    lastReply,        \* the WhatsAppResponse returned last
    lastMessage,      \* the message handled last, where it went, what failed
    scriptPos,        \* progress of ScriptSender through Script
    sentInWindow,     \* per sender: messages handled in the current window
    lastCompletion    \* the LLM text processed last, with its tool invocations

qvars == <<queue, isProcessing, items, flights, calls, unhandled, lastOp, sent>>

hvars == <<handlerClass, customerContexts, orders, messageCount, lastResetTime, now,
           isConnected, pending, lastReply, lastMessage, scriptPos, sentInWindow,
           lastCompletion>>

vars == <<qvars, hvars>>

(***************************************************************************)
(* MessageQueue                                                            *)
(***************************************************************************)

\* messageQueue.ts:15  private readonly maxRetries: number = 3
maxRetries == 3

\* messageQueue.ts:16  private readonly baseRetryDelay: number = 1000
baseRetryDelay == 1000

\* Number of enqueue calls explored.
MaxEnqueue == 2

\* What a MessageProcessor does with every invocation: its promise resolves,
\* rejects with an Error object, rejects with undefined (Promise.reject()),
\* or any of the first two ("flaky").
Processors == {"resolves", "rejectsError", "rejectsUndefined", "flaky"}

MayResolve(p) == p \in {"resolves", "flaky"}

MayRejectError(p) == p \in {"rejectsError", "flaky"}

MayRejectUndefined(p) == p = "rejectsUndefined"

NoOp == [op |-> "init", item |-> 0]

InitQueue ==
    /\ queue = <<>>
    /\ isProcessing = FALSE
    /\ items = <<>>
    /\ flights = EmptyBag
    /\ calls = <<>>
    /\ unhandled = 0
    /\ lastOp = NoOp
    /\ sent = <<>>

\* Array.prototype.shift: removes the first element, a no-op on [].
Shift(q) == IF q = <<>> THEN <<>> ELSE Tail(q)

\* One pending continuation: processQueue awaiting item.processor(message)
\* ("proc") or handleProcessingError awaiting its setTimeout of delay
\* milliseconds ("backoff").
Flight(id, msg, phase) == [item |-> id, msg |-> msg, phase |-> phase, delay |-> 0]

InFlight == {f \in BagToSet(flights) : f.phase = "proc"}

\* Number of processor invocations that have not settled yet.
NumInFlight ==
    LET S == InFlight
        Sum[T \in SUBSET S] ==
            IF T = {} THEN 0
            ELSE LET f == CHOOSE x \in T : TRUE
                 IN  CopiesIn(f, flights) + Sum[T \ {f}]
    IN  Sum[S]

\* A backoff that grows by baseRetryDelay with every retry.
calculateRetryDelay_linear(retryCount) == baseRetryDelay * retryCount

\* calculateRetryDelay: baseRetryDelay * 2^(retryCount - 1)
calculateRetryDelay(retryCount) == baseRetryDelay * (2 ^ (retryCount - 1))

\* processQueue up to its first await, on queue q, pending continuations fl
\* and call counts cl: either the queue is empty and the loop stops, or the
\* head's processor is invoked with the head's message.
processQueue(q, fl, cl, its) ==
    IF q = <<>>
    THEN /\ isProcessing' = FALSE
         /\ flights' = fl
         /\ calls' = cl
    ELSE /\ isProcessing' = TRUE
         /\ flights' = fl (+) SetToBag({Flight(Head(q), its[Head(q)].message, "proc")})
         /\ calls' = [cl EXCEPT ![Head(q)] = @ + 1]

\* enqueue that appends the item and never starts the processing loop.
enqueue_noStart(p) ==
    /\ Len(items) < MaxEnqueue
    /\ items' = Append(items, [message |-> Len(items) + 1, processor |-> p, retryCount |-> 0])
    /\ queue' = Append(queue, Len(items) + 1)
    /\ calls' = Append(calls, 0)
    /\ lastOp' = [op |-> "enqueue", item |-> Len(items) + 1]
    /\ UNCHANGED <<isProcessing, flights, unhandled>>

\* enqueue(message, processor)
enqueue(p) ==
    LET id == Len(items) + 1
        its == Append(items, [message |-> id, processor |-> p, retryCount |-> 0])
        q == Append(queue, id)
        cl == Append(calls, 0)
    IN  /\ Len(items) < MaxEnqueue
        /\ items' = its
        /\ queue' = q
        /\ IF ~isProcessing
           THEN processQueue(q, flights, cl, its)
           ELSE /\ calls' = cl
                /\ UNCHANGED <<isProcessing, flights>>
        /\ lastOp' = [op |-> "enqueue", item |-> id]
        /\ UNCHANGED unhandled

\* The awaited processor promise resolves: processQueue lines 43-45.
processorResolves(f) ==
    /\ f \in InFlight
    /\ MayResolve(items[f.item].processor)
    /\ queue' = Shift(queue)
    /\ processQueue(Shift(queue), flights (-) SetToBag({f}), calls, items)
    /\ lastOp' = [op |-> "resolved", item |-> f.item]
    /\ UNCHANGED <<items, unhandled>>

\* The awaited processor promise rejects with an Error: processQueue line 47
\* and handleProcessingError.
processorRejects(f) ==
    /\ f \in InFlight
    /\ MayRejectError(items[f.item].processor)
    /\ IF items[f.item].retryCount < maxRetries
       THEN /\ items' = [items EXCEPT ![f.item].retryCount = @ + 1]
            /\ flights' = (flights (-) SetToBag({f}))
                            (+) SetToBag({[Flight(f.item, f.msg, "backoff") EXCEPT
                                  !.delay = calculateRetryDelay(items[f.item].retryCount + 1)]})
            /\ lastOp' = [op |-> "retry", item |-> f.item]
            /\ UNCHANGED <<queue, isProcessing, calls>>
       ELSE /\ queue' = Shift(queue)
            /\ processQueue(Shift(queue), flights (-) SetToBag({f}), calls, items)
            /\ lastOp' = [op |-> "dropped", item |-> f.item]
            /\ UNCHANGED items
    /\ UNCHANGED unhandled

\* The awaited processor promise rejects with undefined: line 52 reads
\* error.message, which throws a TypeError inside handleProcessingError, so
\* the promise of processQueue rejects and nothing continues the loop.
processorRejectsUndefined(f) ==
    /\ f \in InFlight
    /\ MayRejectUndefined(items[f.item].processor)
    /\ flights' = flights (-) SetToBag({f})
    /\ unhandled' = unhandled + 1
    /\ lastOp' = [op |-> "typeError", item |-> f.item]
    /\ UNCHANGED <<queue, isProcessing, items, calls>>

\* The setTimeout of handleProcessingError fires: line 60.
backoffExpires(f) ==
    /\ f \in BagToSet(flights)
    /\ f.phase = "backoff"
    /\ processQueue(queue, flights (-) SetToBag({f}), calls, items)
    /\ lastOp' = [op |-> "backoffExpired", item |-> f.item]
    /\ UNCHANGED <<queue, items, unhandled>>

\* clearQueue()
clearQueue ==
    /\ queue' = <<>>
    /\ isProcessing' = FALSE
    /\ lastOp' = [op |-> "clear", item |-> 0]
    /\ UNCHANGED <<items, flights, calls, unhandled>>

(***************************************************************************)
(* Text: a string is the sequence of its characters.                       *)
(***************************************************************************)

UpperCase == <<"A","B","C","D","E","F","G","H","I","J","K","L","M","N","O","P","Q","R","S","T","U","V","W","X","Y","Z">>

LowerCase == <<"a","b","c","d","e","f","g","h","i","j","k","l","m","n","o","p","q","r","s","t","u","v","w","x","y","z">>

Digits == <<"0","1","2","3","4","5","6","7","8","9">>

WhiteSpace == {" ", "\n", "\t", "\r"}

\* The lower-case letter of every upper-case letter
ToLower == [c \in {UpperCase[k] : k \in 1..26} |->
               LowerCase[CHOOSE k \in 1..26 : UpperCase[k] = c]]

\* String.prototype.toLowerCase
toLowerCase(s) ==
    [i \in 1..Len(s) |-> IF s[i] \in DOMAIN ToLower THEN ToLower[s[i]] ELSE s[i]]

\* String.prototype.includes
includes(s, k) ==
    \E i \in 0..(Len(s) - Len(k)) : \A j \in 1..Len(k) : s[i + j] = k[j]

\* String.prototype.trim
trim(s) ==
    LET keep == {i \in 1..Len(s) : s[i] \notin WhiteSpace}
    IN  IF keep = {} THEN <<>>
        ELSE LET a == CHOOSE i \in keep : \A j \in keep : i <= j
                 b == CHOOSE i \in keep : \A j \in keep : i >= j
             IN  SubSeq(s, a, b)

\* String.prototype.split(','): the fields between the commas, empty ones kept.
RECURSIVE split(_)
split(s) ==
    IF \E i \in 1..Len(s) : s[i] = ","
    THEN LET c == CHOOSE i \in 1..Len(s) : s[i] = "," /\ \A j \in 1..(i - 1) : s[j] # ","
         IN  <<SubSeq(s, 1, c - 1)>> \o split(SubSeq(s, c + 1, Len(s)))
    ELSE <<s>>

IsDigit(c) == \E d \in 1..10 : Digits[d] = c

DigitValue(c) == (CHOOSE d \in 1..10 : Digits[d] = c) - 1

\* parseInt(digits, 10) of a non-empty run of decimal digits
RECURSIVE parseInt(_)
parseInt(ds) ==
    IF ds = <<>> THEN 0
    ELSE 10 * parseInt(SubSeq(ds, 1, Len(ds) - 1)) + DigitValue(ds[Len(ds)])

(***************************************************************************)
(* The catalog (data/products.ts). Prices are in cents; no product of the  *)
(* catalog defines the optional unit price `price`.                        *)
(***************************************************************************)

products ==
    <<
       [id |-> "beef-brisket",
        idText |-> <<"b","e","e","f","-","b","r","i","s","k","e","t">>,
        name |-> "Smoky & Peppery Beef Brisket",
        nameText |-> <<"S","m","o","k","y"," ","&"," ","P","e","p","p","e","r","y"," ","B","e","e","f"," ","B","r","i","s","k","e","t">>,
        cartonPrice |-> 24999, price |-> <<>>, inStock |-> TRUE],
       [id |-> "pulled-beef",
        idText |-> <<"p","u","l","l","e","d","-","b","e","e","f">>,
        name |-> "Rich & Smoky Pulled Beef",
        nameText |-> <<"R","i","c","h"," ","&"," ","S","m","o","k","y"," ","P","u","l","l","e","d"," ","B","e","e","f">>,
        cartonPrice |-> 27999, price |-> <<>>, inStock |-> TRUE],
       [id |-> "pork-ribs",
        idText |-> <<"p","o","r","k","-","r","i","b","s">>,
        name |-> "Smoky & Sweet Pork Ribs",
        nameText |-> <<"S","m","o","k","y"," ","&"," ","S","w","e","e","t"," ","P","o","r","k"," ","R","i","b","s">>,
        cartonPrice |-> 29999, price |-> <<>>, inStock |-> TRUE],
       [id |-> "pulled-pork",
        idText |-> <<"p","u","l","l","e","d","-","p","o","r","k">>,
        name |-> "Pulled Pork with a Little Kick",
        nameText |-> <<"P","u","l","l","e","d"," ","P","o","r","k"," ","w","i","t","h"," ","a"," ","L","i","t","t","l","e"," ","K","i","c","k">>,
        cartonPrice |-> 25999, price |-> <<>>, inStock |-> TRUE],
       [id |-> "bbq-drumettes",
        idText |-> <<"b","b","q","-","d","r","u","m","e","t","t","e","s">>,
        name |-> "Smoky, Sweet & Spiced BBQ Drumettes",
        nameText |-> <<"S","m","o","k","y",","," ","S","w","e","e","t"," ","&"," ","S","p","i","c","e","d"," ","B","B","Q"," ","D","r","u","m","e","t","t","e","s">>,
        cartonPrice |-> 18999, price |-> <<>>, inStock |-> TRUE],
       [id |-> "buffalo-drumettes",
        idText |-> <<"b","u","f","f","a","l","o","-","d","r","u","m","e","t","t","e","s">>,
        name |-> "Tangy & Buttery Buffalo Drumettes",
        nameText |-> <<"T","a","n","g","y"," ","&"," ","B","u","t","t","e","r","y"," ","B","u","f","f","a","l","o"," ","D","r","u","m","e","t","t","e","s">>,
        cartonPrice |-> 18999, price |-> <<>>, inStock |-> TRUE],
       [id |-> "cheese-kransky",
        idText |-> <<"c","h","e","e","s","e","-","k","r","a","n","s","k","y">>,
        name |-> "Smoky & Cheesy Big Cheese Kransky",
        nameText |-> <<"S","m","o","k","y"," ","&"," ","C","h","e","e","s","y"," ","B","i","g"," ","C","h","e","e","s","e"," ","K","r","a","n","s","k","y">>,
        cartonPrice |-> 15999, price |-> <<>>, inStock |-> TRUE]
    >>

ProductById(id) == CHOOSE i \in 1..Len(products) : products[i].id = id

(***************************************************************************)
(* MessageHandler: the analysis of the message text                       *)
(***************************************************************************)

\* A detectIntent that looks for the keywords of PLACE_ORDER first.
detectIntent_placeOrderFirst(message) ==
    LET lowerMessage == toLowerCase(message) IN
    IF includes(lowerMessage, <<"o","r","d","e","r">>) \/ includes(lowerMessage, <<"b","u","y">>) \/ includes(lowerMessage, <<"p","u","r","c","h","a","s","e">>)
    THEN "PLACE_ORDER"
    ELSE "GENERAL_INQUIRY"

\* detectIntent
detectIntent(message) ==
    LET lowerMessage == toLowerCase(message) IN
    IF includes(lowerMessage, <<"o","r","d","e","r"," ","s","t","a","t","u","s">>) \/ includes(lowerMessage, <<"t","r","a","c","k">>) \/ includes(lowerMessage, <<"w","h","e","r","e"," ","i","s"," ","m","y"," ","o","r","d","e","r">>)
    THEN "ORDER_STATUS"
    ELSE IF includes(lowerMessage, <<"c","a","n","c","e","l">>)
    THEN "CANCEL_ORDER"
    ELSE IF includes(lowerMessage, <<"d","e","l","i","v","e","r","y">>) \/ includes(lowerMessage, <<"s","h","i","p","p","i","n","g">>)
    THEN "DELIVERY_INQUIRY"
    ELSE IF includes(lowerMessage, <<"p","a","y">>) \/ includes(lowerMessage, <<"p","a","y","m","e","n","t">>)
    THEN "PAYMENT"
    ELSE IF includes(lowerMessage, <<"o","r","d","e","r">>) \/ includes(lowerMessage, <<"b","u","y">>) \/ includes(lowerMessage, <<"p","u","r","c","h","a","s","e">>)
    THEN "PLACE_ORDER"
    ELSE IF includes(lowerMessage, <<"p","r","o","d","u","c","t">>) \/ includes(lowerMessage, <<"p","r","i","c","e">>) \/ includes(lowerMessage, <<"c","o","s","t">>)
    THEN "PRODUCT_INQUIRY"
    ELSE IF includes(lowerMessage, <<"m","e","n","u">>) \/ includes(lowerMessage, <<"w","h","a","t">>) \/ includes(lowerMessage, <<"a","v","a","i","l","a","b","l","e">>)
    THEN "BROWSE_PRODUCTS"
    ELSE "GENERAL_INQUIRY"

\* product.name.toLowerCase() and product.id.toLowerCase() of the catalog
lowerNames == [i \in 1..Len(products) |-> toLowerCase(products[i].nameText)]

lowerIds == [i \in 1..Len(products) |-> toLowerCase(products[i].idText)]

\* findProductInMessage: the position in the catalog of the first product
\* whose name or id occurs in the lower-cased message, 0 when there is none
findProductInMessage(message) ==
    LET lowerMessage == toLowerCase(message)
        hits == {i \in 1..Len(products) :
                    \/ includes(lowerMessage, lowerNames[i])
                    \/ includes(lowerMessage, lowerIds[i])}
    IN  IF hits = {} THEN 0 ELSE CHOOSE i \in hits : \A j \in hits : i <= j

\* extractQuantity: message.match(/(\d+)/), the first maximal run of digits
extractQuantity(message) ==
    LET ds == {i \in 1..Len(message) : IsDigit(message[i])}
    IN  IF ds = {} THEN 0
        ELSE LET a == CHOOSE i \in ds : \A j \in ds : i <= j
                 b == CHOOSE i \in a..Len(message) :
                         /\ \A j \in a..i : IsDigit(message[j])
                         /\ (i = Len(message) \/ ~IsDigit(message[i + 1]))
             IN  parseInt(SubSeq(message, a, b))

\* parseAddress: <<address>> or << >> for null
parseAddress(message) ==
    LET raw == split(message)
        parts == [i \in 1..Len(raw) |-> trim(raw[i])]
    IN  IF Len(parts) # 4 THEN <<>>
        ELSE IF parts[1] = <<>> \/ parts[2] = <<>> \/ parts[3] = <<>> \/ parts[4] = <<>>
        THEN <<>>
        ELSE <<[street |-> parts[1], city |-> parts[2], state |-> parts[3],
                postcode |-> parts[4], country |-> "Australia"]>>

(***************************************************************************)
(* OrderService                                                            *)
(***************************************************************************)

HasProduct(id) == \E i \in 1..Len(products) : products[i].id = id

\* validateOrderItems: the items are examined in order, the first failing
\* check gives the message of the Error that createOrder throws
validateOrderItems(its) ==
    LET bad(i) == \/ ~HasProduct(its[i].productId)
                  \/ ~products[ProductById(its[i].productId)].inStock
                  \/ its[i].quantity <= 0
        bads == {i \in 1..Len(its) : bad(i)}
    IN  IF its = <<>>
        THEN [valid |-> FALSE, message |-> "Order must contain at least one item"]
        ELSE IF bads = {} THEN [valid |-> TRUE, message |-> ""]
        ELSE LET i == CHOOSE k \in bads : \A j \in bads : k <= j
             IN  IF ~HasProduct(its[i].productId)
                 THEN [valid |-> FALSE, message |-> "Product not found"]
                 ELSE IF ~products[ProductById(its[i].productId)].inStock
                 THEN [valid |-> FALSE, message |-> "Product out of stock"]
                 ELSE [valid |-> FALSE, message |-> "Invalid quantity for product"]

\* calculateTotalAmount: items whose product has no unit price add nothing
RECURSIVE calculateTotalAmount(_)
calculateTotalAmount(its) ==
    IF its = <<>> THEN 0
    ELSE LET item == its[Len(its)]
             rest == calculateTotalAmount(SubSeq(its, 1, Len(its) - 1))
         IN  IF ~HasProduct(item.productId) THEN rest
             ELSE LET product == products[ProductById(item.productId)]
                  IN  IF product.price = <<>> \/ product.price = <<0>> THEN rest
                      ELSE rest + product.price[1] * item.quantity

\* A createOrder that stores the order twice.
createOrder_twice(ords, customerId, its, deliveryAddress) ==
    LET validation == validateOrderItems(its)
        order(n) == [id |-> n,
                     customerId |-> customerId,
                     items |-> its,
                     status |-> "PENDING",
                     deliveryAddress |-> deliveryAddress,
                     createdAt |-> now,
                     updatedAt |-> now,
                     totalAmount |-> calculateTotalAmount(its),
                     paymentStatus |-> "PENDING"]
    IN  IF ~validation.valid
        THEN [threw |-> TRUE, message |-> validation.message, orders |-> ords, id |-> 0]
        ELSE [threw |-> FALSE, message |-> "",
              orders |-> ords \o <<order(Len(ords) + 1), order(Len(ords) + 2)>>,
              id |-> Len(ords) + 2]

\* createOrder: the order id is the position of the order in the store
\* (generateOrderId is taken to give a fresh id)
createOrder(ords, customerId, its, deliveryAddress) ==
    LET validation == validateOrderItems(its)
        order == [id |-> Len(ords) + 1,
                  customerId |-> customerId,
                  items |-> its,
                  status |-> "PENDING",
                  deliveryAddress |-> deliveryAddress,
                  createdAt |-> now,
                  updatedAt |-> now,
                  totalAmount |-> calculateTotalAmount(its),
                  paymentStatus |-> "PENDING"]
    IN  IF ~validation.valid
        THEN [threw |-> TRUE, message |-> validation.message, orders |-> ords, id |-> 0]
        ELSE [threw |-> FALSE, message |-> "", orders |-> Append(ords, order),
              id |-> Len(ords) + 1]

\* Array.prototype.sort by createdAt, latest first; the sort is stable, so
\* orders created in the same millisecond keep their insertion order
RECURSIVE SortByCreatedAtDesc(_, _)
SortByCreatedAtDesc(ords, ids) ==
    IF ids = {} THEN <<>>
    ELSE LET first == CHOOSE i \in ids : \A j \in ids :
                         \/ ords[i].createdAt > ords[j].createdAt
                         \/ ords[i].createdAt = ords[j].createdAt /\ i <= j
         IN  <<first>> \o SortByCreatedAtDesc(ords, ids \ {first})

\* getCustomerOrders: the ids of the customer's orders, latest first
getCustomerOrders(ords, customerId) ==
    SortByCreatedAtDesc(ords, {i \in 1..Len(ords) : ords[i].customerId = customerId})

\* updateOrderStatus
updateOrderStatus(ords, orderId, status) ==
    IF orderId \notin 1..Len(ords)
    THEN [threw |-> TRUE, message |-> "Order not found", orders |-> ords]
    ELSE [threw |-> FALSE, message |-> "",
          orders |-> [ords EXCEPT ![orderId].status = status,
                                  ![orderId].updatedAt = now]]

\* A cancelOrder that cancels an order in any status.
cancelOrder_anyStatus(ords, orderId) == updateOrderStatus(ords, orderId, "CANCELLED")

\* cancelOrder
cancelOrder(ords, orderId) ==
    IF orderId \notin 1..Len(ords)
    THEN [threw |-> TRUE, message |-> "Order not found", orders |-> ords]
    ELSE IF ords[orderId].status # "PENDING" /\ ords[orderId].status # "CONFIRMED"
    THEN [threw |-> TRUE, message |-> "Cannot cancel order in status", orders |-> ords]
    ELSE [threw |-> FALSE, message |-> "",
          orders |-> [ords EXCEPT ![orderId].status = "CANCELLED",
                                  ![orderId].updatedAt = now]]

(***************************************************************************)
(* MessageHandler (the rate-limited, scripted variant)                     *)
(***************************************************************************)

\* private rateLimitWindow: number = 60000
rateLimitWindow == 60000

\* private maxMessagesPerWindow: number = 30
maxMessagesPerWindow == 30

\* private rateLimitEnabled: boolean = true
rateLimitEnabled == TRUE

\* The senders (customer ids) explored.
Senders == {"A", "B"}

\* message.body of a message that carries no text
undefined == <<"undefined">>

\* Message bodies of the order-flow specification: the messages of the
\* order-flow test, the same answers worded so that they classify as
\* PLACE_ORDER, and the quick replies of the confirmation stage.
OrderBodies ==
    {<<"p","l","a","c","e"," ","o","r","d","e","r">>,
     <<"p","u","l","l","e","d"," ","p","o","r","k">>,
     <<"2"," ","c","a","r","t","o","n","s">>,
     <<"1","2","3"," ","T","e","s","t"," ","S","t",","," ","S","y","d","n","e","y",","," ","N","S","W",","," ","2","0","0","0">>,
     <<"c","o","n","f","i","r","m"," ","o","r","d","e","r">>,
     <<"o","r","d","e","r"," ","p","u","l","l","e","d","-","p","o","r","k">>,
     <<"o","r","d","e","r"," ","2"," ","c","a","r","t","o","n","s">>,
     <<"o","r","d","e","r"," ","t","o"," ","1"," ","M","a","i","n"," ","S","t",","," ","S","y","d","n","e","y",","," ","N","S","W",","," ","2","0","0","0">>,
     <<"m","o","d","i","f","y"," ","o","r","d","e","r">>,
     <<"c","a","n","c","e","l"," ","o","r","d","e","r">>}

\* Message bodies of the rate-limit specification.
RateBodies ==
    {<<"p","l","a","c","e"," ","o","r","d","e","r">>,
     <<"t","e","s","t"," ","m","e","s","s","a","g","e">>}

\* Message bodies of the LLM specification.
LLMBodies == RateBodies

\* Message bodies of the intent specification: the texts of the tests, and
\* texts in which keywords of two rules occur, in lower and in upper case.
IntentBodies ==
    {<<"t","r","a","c","k"," ","m","y"," ","o","r","d","e","r">>,
     <<"w","h","e","r","e"," ","i","s"," ","m","y"," ","o","r","d","e","r">>,
     <<"w","h","a","t"," ","i","s"," ","m","y"," ","o","r","d","e","r"," ","s","t","a","t","u","s">>,
     <<"c","a","n","c","e","l"," ","m","y"," ","o","r","d","e","r">>,
     <<"c","a","n","c","e","l"," ","d","e","l","i","v","e","r","y">>,
     <<"d","e","l","i","v","e","r","y"," ","c","o","s","t">>,
     <<"p","a","y"," ","f","o","r"," ","m","y"," ","o","r","d","e","r">>,
     <<"b","u","y"," ","a"," ","p","r","o","d","u","c","t">>,
     <<"I"," ","w","a","n","t"," ","t","o"," ","p","u","r","c","h","a","s","e">>,
     <<"w","h","a","t"," ","p","r","o","d","u","c","t","s"," ","a","r","e"," ","a","v","a","i","l","a","b","l","e">>,
     <<"s","h","o","w"," ","m","e"," ","y","o","u","r"," ","p","r","o","d","u","c","t","s">>,
     <<"w","h","a","t"," ","i","s"," ","o","n"," ","t","h","e"," ","m","e","n","u">>,
     <<"h","e","l","l","o"," ","t","h","e","r","e">>,
     <<"T","R","A","C","K"," ","M","Y"," ","O","R","D","E","R">>}

\* Message bodies of the order-dialogue specification: answers worded so that
\* they classify as PLACE_ORDER, among them a quantity of zero, an address
\* with an empty field and one with five fields, and the quick replies of the
\* confirmation stage of either order flow.
DialogueBodies ==
    {<<"p","l","a","c","e"," ","o","r","d","e","r">>,
     <<"o","r","d","e","r"," ","p","u","l","l","e","d","-","p","o","r","k">>,
     <<"o","r","d","e","r"," ","2"," ","c","a","r","t","o","n","s">>,
     <<"o","r","d","e","r"," ","0"," ","c","a","r","t","o","n","s">>,
     <<"o","r","d","e","r"," ","t","o"," ","1"," ","M","a","i","n"," ","S","t",","," ","S","y","d","n","e","y",","," ","N","S","W",","," ","2","0","0","0">>,
     <<"o","r","d","e","r"," ","t","o"," ","1"," ","M","a","i","n"," ","S","t",","," ",","," ","N","S","W",","," ","2","0","0","0">>,
     <<"o","r","d","e","r"," ","t","o"," ","1"," ","M","a","i","n"," ","S","t",","," ","S","y","d","n","e","y",","," ","N","S","W",","," ","2","0","0","0",","," ","A","U">>,
     <<"c","o","n","f","i","r","m"," ","o","r","d","e","r">>,
     <<"p","r","o","c","e","e","d"," ","w","i","t","h"," ","o","r","d","e","r">>,
     <<"m","o","d","i","f","y"," ","o","r","d","e","r">>,
     <<"c","a","n","c","e","l"," ","o","r","d","e","r">>}

\* Every message body explored.
Vocabulary ==
    OrderBodies \cup RateBodies \cup LLMBodies \cup DialogueBodies \cup IntentBodies
        \cup {undefined}

\* What the handler's text functions compute for each body of the vocabulary,
\* tabulated once: detectIntent, findProductInMessage, extractQuantity,
\* parseAddress, message.body.toLowerCase() and the trimmed fields of
\* message.split(',').
Analysis ==
    [b \in Vocabulary |->
        [intent |-> detectIntent(b),
         product |-> findProductInMessage(b),
         quantity |-> extractQuantity(b),
         address |-> parseAddress(b),
         parts |-> [i \in 1..Len(split(b)) |-> trim(split(b)[i])],
         lower |-> toLowerCase(b)]]

\* A WhatsAppResponse: `content` is the fixed wording of a scripted reply,
\* `args` the numbers interpolated into it (an order id, a catalog position,
\* an amount in cents), `text` the content of a reply made of the LLM's text.
Response(content, args, quickReplies) ==
    [to |-> "", content |-> content, args |-> args, quickReplies |-> quickReplies,
     text |-> <<>>]

NoResponse == Response("", <<>>, <<>>)

\* What a handler leaves behind: the contexts, the order store, the reply,
\* and the failure it met on the way ("none" when nothing was thrown).
Outcome(ctxs, ords, response) ==
    [contexts |-> ctxs, orders |-> ords, response |-> response, failure |-> "none"]

Failed(outcome, failure) == [outcome EXCEPT !.failure = failure]

\* products.map(p => p.name)
ProductNames == [i \in 1..Len(products) |-> products[i].name]

\* The context object `{}`: no draft, no product, no address; the fields the
\* LLM variant adds are empty.
EmptyContext ==
    [orderInProgress |-> <<>>, currentProduct |-> <<>>, deliveryAddress |-> <<>>,
     conversationHistory |-> <<>>, lastInteraction |-> 0]

\* A store that keeps the context of one customer at a time.
getCustomerContext_single(ctxs, customerId) ==
    customerId :> (IF customerId \in DOMAIN ctxs THEN ctxs[customerId] ELSE EmptyContext)

\* getCustomerContext: the map after the lookup, which creates a missing entry
getCustomerContext(ctxs, customerId) ==
    IF customerId \in DOMAIN ctxs THEN ctxs
    ELSE (customerId :> EmptyContext) @@ ctxs

\* A checkRateLimit that never starts a new window.
checkRateLimit_noReset(count, last, t) ==
    [messageCount |-> count + 1,
     lastResetTime |-> last,
     allowed |-> count + 1 <= maxMessagesPerWindow,
     reset |-> FALSE]

\* A checkRateLimit that admits one message less per window.
checkRateLimit_offByOne(count, last, t) ==
    LET reset == t - last >= rateLimitWindow
        c == (IF reset THEN 0 ELSE count) + 1
    IN  [messageCount |-> c,
         lastResetTime |-> IF reset THEN t ELSE last,
         allowed |-> c < maxMessagesPerWindow,
         reset |-> reset]

\* checkRateLimit of MessageHandler: the counter and reset time it leaves and
\* the verdict it returns
checkRateLimit(count, last, t) ==
    LET reset == t - last >= rateLimitWindow
        c == (IF reset THEN 0 ELSE count) + 1
    IN  IF ~rateLimitEnabled
        THEN [messageCount |-> count, lastResetTime |-> last, allowed |-> TRUE,
              reset |-> FALSE]
        ELSE [messageCount |-> c,
              lastResetTime |-> IF reset THEN t ELSE last,
              allowed |-> c <= maxMessagesPerWindow,
              reset |-> reset]

handleBrowseProducts(ctxs, ords) ==
    Outcome(ctxs, ords,
        Response("Available Products", <<>>,
                 <<"Order now", "Product details", "Check order status">>))

handleProductInquiry(ctxs, ords, message) ==
    LET matchedProduct == Analysis[message].product
    IN  IF matchedProduct = 0
        THEN Outcome(ctxs, ords,
                Response("Which product would you like to know more about? Please mention the product name.",
                         <<>>, ProductNames))
        ELSE Outcome(ctxs, ords,
                Response("Product details", <<matchedProduct>>,
                         <<"Place order", "View other products", "Check availability">>))

handleOrderStatus(ctxs, ords, customerId) ==
    LET mine == getCustomerOrders(ords, customerId)
    IN  IF mine = <<>>
        THEN Outcome(ctxs, ords,
                Response("You don't have any orders yet. Would you like to place an order?",
                         <<>>, <<"Browse products", "Place order">>))
        ELSE Outcome(ctxs, ords,
                Response("Latest Order Status", <<mine[1]>>,
                         <<"Track delivery", "Cancel order", "Place new order">>))

handleCancelOrder(ctxs, ords, customerId) ==
    LET mine == getCustomerOrders(ords, customerId)
    IN  IF mine = <<>>
        THEN Outcome(ctxs, ords,
                Response("You don't have any active orders to cancel.",
                         <<>>, <<"Browse products", "Place order">>))
        ELSE IF ords[mine[1]].status # "PENDING" /\ ords[mine[1]].status # "CONFIRMED"
        THEN Outcome(ctxs, ords,
                Response("Sorry, your order cannot be cancelled as it is already",
                         <<mine[1]>>, <<"Check order status", "Place new order">>))
        ELSE LET r == cancelOrder(ords, mine[1])
             IN  IF r.threw
                 THEN Failed(Outcome(ctxs, ords,
                        Response("Sorry, there was an error cancelling your order. Please try again or contact support.",
                                 <<>>, <<"Try again", "Contact support">>)), "order")
                 ELSE Outcome(ctxs, r.orders,
                        Response("Your order has been cancelled successfully. Would you like to place a new order?",
                                 <<mine[1]>>, <<"Browse products", "Place new order">>))

handleDeliveryInquiry(ctxs, ords, customerId) ==
    LET mine == getCustomerOrders(ords, customerId)
    IN  IF mine = <<>>
        THEN Outcome(ctxs, ords,
                Response("You don't have any active orders for delivery tracking.",
                         <<>>, <<"Browse products", "Place order">>))
        ELSE Outcome(ctxs, ords,
                Response("Delivery Status for Order", <<mine[1]>>,
                         <<"Check order status", "Contact support", "Place new order">>))

handlePayment(ctxs, ords) ==
    Outcome(ctxs, ords,
        Response("We will assist you with the payment process. Please wait while we check your order details.",
                 <<>>, <<"Check order status", "Cancel payment", "Contact support">>))

handleGeneralInquiry(ctxs, ords) ==
    Outcome(ctxs, ords,
        Response("How can I help you today? You can browse our products, check order status, or place a new order.",
                 <<>>, <<"Browse products", "Check order status", "Place order", "Contact support">>))

\* The order summary's grand total: quantity x carton price over the items
\* whose product is in the catalog. toFixed(2) of the floating-point sum is
\* the exact amount in cents for the quantities explored.
RECURSIVE SummaryTotal(_)
SummaryTotal(its) ==
    IF its = <<>> THEN 0
    ELSE LET item == its[Len(its)]
             rest == SummaryTotal(SubSeq(its, 1, Len(its) - 1))
         IN  IF HasProduct(item.productId)
             THEN rest + item.quantity * products[ProductById(item.productId)].cartonPrice
             ELSE rest

\* handlePlaceOrder, case OrderStage.PRODUCT_SELECTION
productSelection(ctxs, ords, from, body) ==
    LET product == Analysis[body].product
    IN  IF product # 0
        THEN Outcome([ctxs EXCEPT ![from].currentProduct = <<products[product].id>>,
                                  ![from].orderInProgress[1].stage = "QUANTITY_SELECTION"],
                     ords,
                     Response("How many cartons would you like to order?", <<product>>,
                              <<"1 carton", "2 cartons", "5 cartons", "10 cartons", "Cancel order">>))
        ELSE Outcome(ctxs, ords,
                     Response("I couldn't find that product. Please try again or browse our available products.",
                              <<>>, <<"Browse products", "Cancel order">>))

\* A quantity step that accepts whatever number it reads.
quantitySelection_unchecked(ctxs, ords, from, body) ==
    LET quantity == Analysis[body].quantity
        draft == ctxs[from].orderInProgress[1]
    IN  Outcome([ctxs EXCEPT ![from].orderInProgress =
                    <<[items |-> Append(draft.items,
                                        [productId |-> ctxs[from].currentProduct[1],
                                         quantity |-> quantity]),
                       stage |-> "ADDRESS_COLLECTION"]>>],
                ords,
                Response("Please provide your delivery address in the following format:",
                         <<>>, <<"Use saved address", "Cancel order">>))

\* handlePlaceOrder, case OrderStage.QUANTITY_SELECTION with a current product
quantitySelection(ctxs, ords, from, body) ==
    LET quantity == Analysis[body].quantity
        draft == ctxs[from].orderInProgress[1]
    IN  IF quantity <= 0
        THEN Outcome(ctxs, ords,
                     Response("Please specify a valid quantity (e.g., \"2 cartons\").", <<>>,
                              <<"1 carton", "2 cartons", "5 cartons", "10 cartons", "Cancel order">>))
        ELSE Outcome([ctxs EXCEPT ![from].orderInProgress =
                         <<[items |-> Append(draft.items,
                                             [productId |-> ctxs[from].currentProduct[1],
                                              quantity |-> quantity]),
                            stage |-> "ADDRESS_COLLECTION"]>>],
                     ords,
                     Response("Please provide your delivery address in the following format:",
                              <<>>, <<"Use saved address", "Cancel order">>))

\* An address step that accepts whatever parseAddress returns.
addressCollection_unvalidated(ctxs, ords, from, body) ==
    Outcome([ctxs EXCEPT ![from].deliveryAddress = Analysis[body].address,
                         ![from].orderInProgress[1].stage = "CONFIRMATION"],
            ords,
            Response("Order Summary",
                     <<SummaryTotal(ctxs[from].orderInProgress[1].items)>>,
                     <<"Confirm order", "Modify order", "Cancel order">>))

\* handlePlaceOrder, case OrderStage.ADDRESS_COLLECTION
addressCollection(ctxs, ords, from, body) ==
    LET address == Analysis[body].address
    IN  IF address = <<>>
        THEN Outcome(ctxs, ords,
                     Response("Invalid address format. Please provide your address as:", <<>>,
                              <<"Use saved address", "Cancel order">>))
        ELSE Outcome([ctxs EXCEPT ![from].deliveryAddress = address,
                                  ![from].orderInProgress[1].stage = "CONFIRMATION"],
                     ords,
                     Response("Order Summary",
                              <<SummaryTotal(ctxs[from].orderInProgress[1].items)>>,
                              <<"Confirm order", "Modify order", "Cancel order">>))

\* handlePlaceOrder, case OrderStage.CONFIRMATION
confirmation(ctxs, ords, from, body) ==
    LET response == Analysis[body].lower
        context == ctxs[from]
    IN  IF includes(response, <<"c","o","n","f","i","r","m">>)
        THEN LET r == createOrder(ords, from, context.orderInProgress[1].items,
                                  context.deliveryAddress)
             IN  IF r.threw
                 THEN Failed(Outcome(ctxs, ords,
                        Response("Sorry, there was an error processing your order. Please try again.",
                                 <<>>, <<"Try again", "Cancel order">>)), "order")
                 ELSE Outcome([ctxs EXCEPT ![from].orderInProgress = <<>>,
                                           ![from].currentProduct = <<>>,
                                           ![from].deliveryAddress = <<>>],
                              r.orders,
                        Response("Thank you! Your order has been confirmed.", <<r.id>>,
                                 <<"Check order status", "Place another order">>))
        ELSE IF includes(response, <<"m","o","d","i","f","y">>)
        THEN Outcome([ctxs EXCEPT ![from].orderInProgress =
                                      <<[items |-> <<>>, stage |-> "PRODUCT_SELECTION"]>>,
                                  ![from].currentProduct = <<>>],
                     ords,
                     Response("Let's modify your order. What would you like to order?",
                              <<>>, ProductNames))
        ELSE IF includes(response, <<"c","a","n","c","e","l">>)
        THEN Outcome([ctxs EXCEPT ![from].orderInProgress = <<>>,
                                  ![from].currentProduct = <<>>,
                                  ![from].deliveryAddress = <<>>],
                     ords,
                     Response("Order cancelled. Is there anything else I can help you with?",
                              <<>>, <<"Browse products", "Start new order", "Check other orders">>))
        ELSE Outcome(ctxs, ords,
                     Response("Please confirm if you want to proceed with this order.", <<>>,
                              <<"Confirm order", "Modify order", "Cancel order">>))

\* handlePlaceOrder
handlePlaceOrder(ctxs, ords, from, body) ==
    LET cs == getCustomerContext(ctxs, from)
        context == cs[from]
    IN  IF context.orderInProgress = <<>>
        THEN Outcome([cs EXCEPT ![from].orderInProgress =
                                    <<[items |-> <<>>, stage |-> "PRODUCT_SELECTION"]>>],
                     ords,
                     Response("What would you like to order? Please mention the product name.",
                              <<>>, ProductNames))
        ELSE LET stage == context.orderInProgress[1].stage
             IN  IF stage = "PRODUCT_SELECTION"
                 THEN productSelection(cs, ords, from, body)
                 ELSE IF stage = "QUANTITY_SELECTION"
                 THEN IF context.currentProduct = <<>>
                      THEN productSelection(
                               [cs EXCEPT ![from].orderInProgress[1].stage = "PRODUCT_SELECTION"],
                               ords, from, body)
                      ELSE quantitySelection(cs, ords, from, body)
                 ELSE IF stage = "ADDRESS_COLLECTION"
                 THEN addressCollection(cs, ords, from, body)
                 ELSE IF stage = "CONFIRMATION"
                 THEN confirmation(cs, ords, from, body)
                 ELSE Outcome(cs, ords,
                        Response("I couldn't process your order. Please try again.", <<>>,
                                 <<"Browse products", "Start over">>))

\* The switch of handleMessage: the handler the intent selects
dispatch(intent, ctxs, ords, from, body) ==
    IF intent = "BROWSE_PRODUCTS" THEN handleBrowseProducts(ctxs, ords)
    ELSE IF intent = "PRODUCT_INQUIRY" THEN handleProductInquiry(ctxs, ords, body)
    ELSE IF intent = "ORDER_STATUS" THEN handleOrderStatus(ctxs, ords, from)
    ELSE IF intent = "CANCEL_ORDER" THEN handleCancelOrder(ctxs, ords, from)
    ELSE IF intent = "DELIVERY_INQUIRY" THEN handleDeliveryInquiry(ctxs, ords, from)
    ELSE IF intent = "PAYMENT" THEN handlePayment(ctxs, ords)
    ELSE IF intent = "PLACE_ORDER" THEN handlePlaceOrder(ctxs, ords, from, body)
    ELSE handleGeneralInquiry(ctxs, ords)

TooManyMessages ==
    Response("You have sent too many messages. Please wait a moment before sending more messages.",
             <<>>, <<>>)

ErrorProcessingMessage ==
    Response("Sorry, there was an error processing your message. Please try again later.",
             <<>>, <<>>)

\* The five messages of the order-flow test, in order.
Script ==
    <<<<"p","l","a","c","e"," ","o","r","d","e","r">>,
      <<"p","u","l","l","e","d"," ","p","o","r","k">>,
      <<"2"," ","c","a","r","t","o","n","s">>,
      <<"1","2","3"," ","T","e","s","t"," ","S","t",","," ","S","y","d","n","e","y",","," ","N","S","W",","," ","2","0","0","0">>,
      <<"c","o","n","f","i","r","m"," ","o","r","d","e","r">>>>

ScriptSender == "A"

\* How far ScriptSender, starting without a draft, has got through Script
\* with the messages handled for it; -1 once it has left the script.
NextScriptPos(from, body, allowed) ==
    IF from # ScriptSender THEN scriptPos
    ELSE IF allowed /\ scriptPos \in 0..(Len(Script) - 1) /\ body = Script[scriptPos + 1]
    THEN scriptPos + 1
    ELSE -1

\* The messages each sender had handled in the rate-limit window in force.
NextSentInWindow(from, reset) ==
    [s \in Senders |-> (IF reset THEN 0 ELSE sentInWindow[s]) + (IF s = from THEN 1 ELSE 0)]

\* MessageHandler.handleMessage(message). Every effect of the call on the
\* handler's state happens in the order of the code; the reply is stamped with
\* the sender. A message without a body makes detectIntent raise a TypeError,
\* which the catch turns into the apology.
handleMessage(from, body) ==
    LET rl == checkRateLimit(messageCount, lastResetTime, now)
        intent == Analysis[body].intent
    IN  /\ handlerClass = "MessageHandler"
        /\ messageCount' = rl.messageCount
        /\ lastResetTime' = rl.lastResetTime
        /\ IF ~rl.allowed
           THEN /\ lastReply' = [TooManyMessages EXCEPT !.to = from]
                /\ lastMessage' = [from |-> from, body |-> body, route |-> "throttled",
                                   failure |-> "none"]
                /\ UNCHANGED <<customerContexts, orders>>
           ELSE IF body = undefined
           THEN /\ lastReply' = [ErrorProcessingMessage EXCEPT !.to = from]
                /\ lastMessage' = [from |-> from, body |-> body, route |-> "catch",
                                   failure |-> "body"]
                /\ UNCHANGED <<customerContexts, orders>>
           ELSE \E out \in {dispatch(intent, customerContexts, orders, from, body)} :
                /\ customerContexts' = out.contexts
                /\ orders' = out.orders
                /\ lastReply' = [out.response EXCEPT !.to = from]
                /\ lastMessage' = [from |-> from, body |-> body, route |-> intent,
                                   failure |-> out.failure]
        /\ scriptPos' = NextScriptPos(from, body, rl.allowed)
        /\ sentInWindow' = NextSentInWindow(from, rl.reset)
        /\ UNCHANGED <<handlerClass, lastCompletion, now, isConnected, pending>>

(***************************************************************************)
(* OrderHandler and the MessageHandler that delegates to it                *)
(***************************************************************************)

\* handleProductSelection
handleProductSelection(ctxs, ords, from, body) ==
    LET product == Analysis[body].product
    IN  IF product = 0
        THEN Outcome(ctxs, ords,
                Response("Which product would you like to order? Please specify the product name.",
                         <<>>, ProductNames))
        ELSE Outcome([ctxs EXCEPT ![from].currentProduct = <<products[product].id>>,
                                  ![from].orderInProgress =
                                      IF @ = <<>> THEN @
                                      ELSE <<[@[1] EXCEPT !.stage = "QUANTITY_SELECTION"]>>],
                     ords,
                     Response("How many cartons would you like to order?", <<product>>,
                              <<"1 carton", "2 cartons", "5 cartons", "10 cartons">>))

\* OrderHandler.extractQuantity: parseInt without a radix reads the decimal
\* digits the expression matched
extractQuantityOH(body) == Analysis[body].quantity

\* handleQuantitySelection
handleQuantitySelection(ctxs, ords, from, body) ==
    LET context == ctxs[from]
        quantity == extractQuantityOH(body)
    IN  IF context.currentProduct = <<>> \/ context.orderInProgress = <<>>
        THEN handleProductSelection(ctxs, ords, from, body)
        ELSE IF quantity <= 0
        THEN Outcome(ctxs, ords,
                Response("Please specify a valid quantity (e.g., \"2 cartons\").", <<>>,
                         <<"1 carton", "2 cartons", "5 cartons", "10 cartons">>))
        ELSE Outcome([ctxs EXCEPT ![from].orderInProgress =
                         <<[items |-> Append(context.orderInProgress[1].items,
                                             [productId |-> context.currentProduct[1],
                                              quantity |-> quantity]),
                            stage |-> "ADDRESS_COLLECTION"]>>],
                     ords,
                     Response("Please provide your delivery address in the following format:",
                              <<>>, <<"Use saved address">>))

\* The total of handleAddressCollection: (product.price || 0) * quantity over
\* the items whose product is in the catalog; a product without a unit price
\* counts as 0.
RECURSIVE SummaryTotalOH(_)
SummaryTotalOH(its) ==
    IF its = <<>> THEN 0
    ELSE LET item == its[Len(its)]
             rest == SummaryTotalOH(SubSeq(its, 1, Len(its) - 1))
         IN  IF ~HasProduct(item.productId) THEN rest
             ELSE LET product == products[ProductById(item.productId)]
                  IN  rest + (IF product.price = <<>> THEN 0 ELSE product.price[1])
                                 * item.quantity

\* handleAddressCollection: the address is read from the message for the
\* summary only, the context keeps no address
handleAddressCollection(ctxs, ords, from, body) ==
    LET context == ctxs[from]
        addressParts == Analysis[body].parts
    IN  IF context.orderInProgress = <<>>
        THEN handleProductSelection(ctxs, ords, from, body)
        ELSE IF Len(addressParts) < 4
        THEN Outcome(ctxs, ords,
                Response("Please provide your complete delivery address in the format:",
                         <<>>, <<"Use saved address">>))
        ELSE Outcome([ctxs EXCEPT ![from].orderInProgress[1].stage = "PAYMENT_PENDING"],
                     ords,
                     Response("Order Summary",
                              <<SummaryTotalOH(context.orderInProgress[1].items)>>,
                              <<"Proceed to payment", "Modify order", "Cancel order">>))

\* The address handlePaymentConfirmation hands to createOrder
PlaceholderAddress ==
    <<[street |-> <<"1","2","3"," ","M","a","i","n"," ","S","t">>, city |-> <<"S","y","d","n","e","y">>, state |-> <<"N","S","W">>,
       postcode |-> <<"2","0","0","0">>, country |-> "Australia"]>>

\* handlePaymentConfirmation
handlePaymentConfirmation(ctxs, ords, from, body) ==
    LET context == ctxs[from]
        lower == Analysis[body].lower
    IN  IF context.orderInProgress = <<>> \/ context.orderInProgress[1].items = <<>>
        THEN handleProductSelection(ctxs, ords, from, body)
        ELSE IF includes(lower, <<"p","r","o","c","e","e","d">>)
        THEN LET r == createOrder(ords, from, context.orderInProgress[1].items,
                                  PlaceholderAddress)
             IN  IF r.threw
                 THEN Failed(Outcome(ctxs, ords,
                        Response("Sorry, there was an error processing your order. Please try again.",
                                 <<>>, <<"Try again", "Contact support">>)), "order")
                 ELSE Outcome([ctxs EXCEPT ![from].orderInProgress = <<>>,
                                           ![from].currentProduct = <<>>],
                              r.orders,
                              Response("Thank you for your order!", <<r.id>>,
                                       <<"Check order status", "Place another order">>))
        ELSE IF includes(lower, <<"m","o","d","i","f","y">>)
        THEN Outcome([ctxs EXCEPT ![from].orderInProgress[1].stage = "PRODUCT_SELECTION"],
                     ords,
                     Response("Let's modify your order. Which product would you like to order?",
                              <<>>, ProductNames))
        ELSE IF includes(lower, <<"c","a","n","c","e","l">>)
        THEN Outcome([ctxs EXCEPT ![from].orderInProgress = <<>>,
                                  ![from].currentProduct = <<>>],
                     ords,
                     Response("Order cancelled. Is there anything else I can help you with?",
                              <<>>, <<"Browse products", "Start new order", "Check other orders">>))
        ELSE Outcome(ctxs, ords,
                Response("Would you like to proceed with the payment, modify your order, or cancel it?",
                         <<>>, <<"Proceed to payment", "Modify order", "Cancel order">>))

\* handleOrderMessage: a missing draft is created, then the stage of the draft
\* selects the step
handleOrderMessage(ctxs, ords, from, body) ==
    LET cs == IF ctxs[from].orderInProgress = <<>>
              THEN [ctxs EXCEPT ![from].orderInProgress =
                                    <<[items |-> <<>>, stage |-> "PRODUCT_SELECTION"]>>]
              ELSE ctxs
        stage == cs[from].orderInProgress[1].stage
    IN  IF stage = "PRODUCT_SELECTION" THEN handleProductSelection(cs, ords, from, body)
        ELSE IF stage = "QUANTITY_SELECTION" THEN handleQuantitySelection(cs, ords, from, body)
        ELSE IF stage = "ADDRESS_COLLECTION" THEN handleAddressCollection(cs, ords, from, body)
        ELSE IF stage = "PAYMENT_PENDING" THEN handlePaymentConfirmation(cs, ords, from, body)
        ELSE Outcome(cs, ords,
                Response("Would you like to start a new order?", <<>>,
                         <<"Browse products", "View menu">>))

\* The branch of handleMessage for a sender without a draft and an intent
\* other than PLACE_ORDER; a product inquiry that names a product makes it the
\* current product.
dispatchOH(intent, ctxs, ords, from, body) ==
    IF intent = "BROWSE_PRODUCTS" THEN handleBrowseProducts(ctxs, ords)
    ELSE IF intent = "PRODUCT_INQUIRY"
    THEN LET out == handleProductInquiry(ctxs, ords, body)
             matchedProduct == Analysis[body].product
         IN  IF matchedProduct = 0 THEN out
             ELSE [out EXCEPT !.contexts[from].currentProduct =
                                  <<products[matchedProduct].id>>]
    ELSE IF intent = "ORDER_STATUS" THEN handleOrderStatus(ctxs, ords, from)
    ELSE IF intent = "CANCEL_ORDER" THEN handleCancelOrder(ctxs, ords, from)
    ELSE IF intent = "DELIVERY_INQUIRY" THEN handleDeliveryInquiry(ctxs, ords, from)
    ELSE Outcome(ctxs, ords,
            Response("How can I help you today?", <<>>,
                     <<"Browse products", "Check order status", "Place order">>))

\* handleMessage of the MessageHandler that delegates to OrderHandler: a
\* sender with a draft, or a PLACE_ORDER intent, goes to the order handler;
\* the reply is stamped with the sender. This handler has no rate limit.
handleMessageOH(from, body) ==
    LET intent == Analysis[body].intent
        cs == getCustomerContext(customerContexts, from)
        delegated == cs[from].orderInProgress # <<>> \/ intent = "PLACE_ORDER"
    IN  /\ handlerClass = "OrderHandler"
        /\ body # undefined
        /\ \E out \in {IF delegated THEN handleOrderMessage(cs, orders, from, body)
                       ELSE dispatchOH(intent, cs, orders, from, body)} :
                /\ customerContexts' = out.contexts
                /\ orders' = out.orders
                /\ lastReply' = [out.response EXCEPT !.to = from]
                /\ lastMessage' = [from |-> from, body |-> body,
                                   route |-> IF delegated THEN "PLACE_ORDER" ELSE intent,
                                   failure |-> out.failure]
        /\ scriptPos' = NextScriptPos(from, body, TRUE)
        /\ sentInWindow' = NextSentInWindow(from, FALSE)
        /\ UNCHANGED <<handlerClass, lastCompletion, messageCount, lastResetTime, now, isConnected,
                       pending>>

(***************************************************************************)
(* OpenRouterMessageHandler: the tool-call codec                           *)
(***************************************************************************)

\* [a-zA-Z0-9_]
IsWordChar(c) ==
    \/ c \in DOMAIN ToLower
    \/ \E k \in 1..26 : LowerCase[k] = c
    \/ IsDigit(c)
    \/ c = "_"

\* The characters `.` does not match without the s flag.
LineTerminators == {"\n", "\r"}

\* k occurs in s at position i
startsWithAt(s, k, i) ==
    /\ i >= 1
    /\ i + Len(k) - 1 <= Len(s)
    /\ \A j \in 1..Len(k) : s[i + j - 1] = k[j]

\* the least member of a non-empty set of positions
First(S) == CHOOSE i \in S : \A j \in S : i <= j

\* the greatest member of a non-empty set of positions
Last(S) == CHOOSE i \in S : \A j \in S : i >= j

\* JSON.parse accepts the text as an object: the texts explored are objects
\* of string members, "{" ("key": "value" ("," "key": "value")*)? "}", the
\* strings without quotes or escapes; any other text is a SyntaxError.
RECURSIVE IsJSONMembers(_)
IsJSONMembers(t) ==
    LET s == trim(t)
        quotes == {i \in 1..Len(s) : s[i] = "\""}
    IN  /\ Cardinality(quotes) >= 4
        /\ s[1] = "\""
        /\ LET q2 == First(quotes \ {1})
               q3 == First({i \in quotes : i > q2})
               q4 == First({i \in quotes : i > q3})
           IN  /\ trim(SubSeq(s, q2 + 1, q3 - 1)) = <<":">>
               /\ \/ q4 = Len(s)
                  \/ LET rest == trim(SubSeq(s, q4 + 1, Len(s)))
                     IN  /\ rest # <<>>
                         /\ rest[1] = ","
                         /\ IsJSONMembers(SubSeq(rest, 2, Len(rest)))

IsJSONObject(t) ==
    LET s == trim(t)
    IN  /\ Len(s) >= 2
        /\ s[1] = "{"
        /\ s[Len(s)] = "}"
        /\ \/ trim(SubSeq(s, 2, Len(s) - 1)) = <<>>
           \/ IsJSONMembers(SubSeq(s, 2, Len(s) - 1))

\* One match of
\*   /TOOL: ([a-zA-Z0-9_]+)\nARGS: ({[\s\S]*?})\nREASON: ([\s\S]*?)(?=TOOL:|$)/
\* starting at position p: << >> when there is none, else the match with the
\* position `next` that follows it.
toolRegexAt(s, p) ==
    LET n1 == p + 6
        run == {e \in n1..Len(s) : \A i \in n1..e : IsWordChar(s[i])}
    IN  IF ~startsWithAt(s, <<"T","O","O","L",":"," ">>, p) \/ run = {} THEN <<>>
        ELSE LET nameEnd == Last(run)
                 brace == nameEnd + 8
                 closes == {e \in (brace + 1)..Len(s) :
                               s[e] = "}" /\ startsWithAt(s, <<"\n","R","E","A","S","O","N",":"," ">>, e + 1)}
             IN  IF ~startsWithAt(s, <<"\n","A","R","G","S",":"," ","{">>, nameEnd + 1) \/ closes = {} THEN <<>>
                 ELSE LET close == First(closes)
                          rs == close + 10
                          stops == {r \in rs..(Len(s) + 1) :
                                       r = Len(s) + 1 \/ startsWithAt(s, <<"T","O","O","L",":">>, r)}
                      IN  <<[name |-> SubSeq(s, n1, nameEnd),
                             args |-> SubSeq(s, brace, close),
                             next |-> First(stops)]>>

\* extractToolCalls: the exec loop of the global regular expression from
\* position `from` on; a match whose ARGS text JSON.parse rejects is skipped.
\* A tool call keeps its arguments as the text that was parsed.
RECURSIVE extractToolCallsFrom(_, _)
extractToolCallsFrom(s, from) ==
    LET starts == {p \in from..Len(s) : toolRegexAt(s, p) # <<>>}
    IN  IF starts = {} THEN <<>>
        ELSE LET m == toolRegexAt(s, First(starts))[1]
             IN  (IF IsJSONObject(m.args)
                  THEN <<[name |-> m.name, arguments |-> m.args]>>
                  ELSE <<>>)
                 \o extractToolCallsFrom(s, m.next)

extractToolCalls(response) == extractToolCallsFrom(response, 1)

\* A replacement that leaves the text as it is.
replaceToolBlock_keep(s, name, replacement) == s

\* processedResponse.replace(new RegExp(`TOOL: ${name}\nARGS:.*\nREASON:.*?(?=TOOL:|$)`, 's'),
\* replacement): the first match is replaced; `.*` after ARGS: is greedy, so the
\* match runs to the last "\nREASON:" of the text and from there to the next
\* "TOOL:" or the end.
replaceToolBlock(s, name, replacement) ==
    LET prefix == <<"T","O","O","L",":"," ">> \o name \o <<"\n","A","R","G","S",":">>
        starts == {p \in 1..Len(s) :
                     /\ startsWithAt(s, prefix, p)
                     /\ \E q \in (p + Len(prefix))..Len(s) : startsWithAt(s, <<"\n","R","E","A","S","O","N",":">>, q)}
    IN  IF starts = {} THEN s
        ELSE LET p == First(starts)
                 q == Last({i \in (p + Len(prefix))..Len(s) : startsWithAt(s, <<"\n","R","E","A","S","O","N",":">>, i)})
                 r == First({i \in (q + 8)..(Len(s) + 1) :
                                i = Len(s) + 1 \/ startsWithAt(s, <<"T","O","O","L",":">>, i)})
             IN  SubSeq(s, 1, p - 1) \o replacement \o SubSeq(s, r, Len(s))

\* One match of /\[Tool .* result: (.*?)]/ starting at position p: `.` stays
\* on the line, `.*` is greedy and (.*?) is lazy.
cleanupAt(s, p) ==
    LET breaks == {i \in p..Len(s) : s[i] \in LineTerminators}
        lineEnd == IF breaks = {} THEN Len(s) + 1 ELSE First(breaks)
        closeAfter(q) == {e \in (q + 9)..(lineEnd - 1) : s[e] = "]"}
        marks == {q \in (p + 6)..(lineEnd - 1) :
                     startsWithAt(s, <<" ","r","e","s","u","l","t",":"," ">>, q) /\ closeAfter(q) # {}}
    IN  IF ~startsWithAt(s, <<"[","T","o","o","l"," ">>, p) \/ marks = {} THEN <<>>
        ELSE LET q == Last(marks)
                 e == First(closeAfter(q))
             IN  <<[group |-> SubSeq(s, q + 9, e - 1), next |-> e + 1]>>

\* processedResponse.replace(/\[Tool .* result: (.*?)]/g, '$1')
RECURSIVE cleanupFrom(_, _)
cleanupFrom(s, from) ==
    LET starts == {p \in from..Len(s) : cleanupAt(s, p) # <<>>}
    IN  IF starts = {} THEN SubSeq(s, from, Len(s))
        ELSE LET p == First(starts)
                 m == cleanupAt(s, p)[1]
             IN  SubSeq(s, from, p - 1) \o m.group \o cleanupFrom(s, m.next)

(***************************************************************************)
(* MCPManager                                                              *)
(***************************************************************************)

\* MCPManager.tools: a tool of the MCP server and a tool registered by
\* another provider, with JSON.stringify of the result the provider returns.
tools ==
    <<[name |-> <<"c","a","l","c","u","l","a","t","o","r">>, providerId |-> "mcp",
       result |-> <<"{","\"","r","e","s","u","l","t","\"",":","4","}">>],
      [name |-> <<"c","r","m","_","l","o","o","k","u","p">>, providerId |-> "VeyraxClient",
       result |-> <<"{","\"","t","i","e","r","\"",":","\"","g","o","l","d","\"","}">>]>>

\* hasToolAvailable
hasToolAvailable(toolName) == \E i \in 1..Len(tools) : tools[i].name = toolName

ToolNamed(toolName) == tools[CHOOSE i \in 1..Len(tools) : tools[i].name = toolName]

\* callTool can raise for this tool: a tool of the MCP server falls back to
\* the mock implementation, a tool of another provider rethrows.
MayThrow(toolName) ==
    ~hasToolAvailable(toolName) \/ ToolNamed(toolName).providerId # "mcp"

\* callToolMock(name, args), as JSON.stringify of what it returns: the
\* calculator evaluates args.expression, '0' when there is none; a name
\* without a case of its own gets the default message.
callToolMock(name, args) ==
    IF name = <<"c","a","l","c","u","l","a","t","o","r">>
    THEN IF includes(args, <<"\"","e","x","p","r","e","s","s","i","o","n","\"",":"," ","\"","2","+","2","\"">>)
         THEN <<"{","\"","r","e","s","u","l","t","\"",":","4","}">>
         ELSE <<"{","\"","r","e","s","u","l","t","\"",":","0","}">>
    ELSE <<"{","\"","m","e","s","s","a","g","e","\"",":","\"","M","o","c","k"," ","r","e","s","u","l","t"," ","f","o","r"," ","t","o","o","l"," ","'">> \o name \o <<"'","\"",",","\"","a","r","g","s","\"",":">> \o args \o <<"}">>

\* callTool(name, args) with the MCP client and the providers connected, where
\* `fails` says whether the invocation of the tool, mcpClient.callTool or
\* provider.callTool, throws: an unknown tool raises; a failed tool of the MCP
\* server is answered by callToolMock; a failed tool of another provider
\* rethrows.
callTool(name, args, fails) ==
    IF ~hasToolAvailable(name)
    THEN [threw |-> TRUE, result |-> <<>>, by |-> "none"]
    ELSE IF ~fails
    THEN [threw |-> FALSE, result |-> ToolNamed(name).result,
          by |-> ToolNamed(name).providerId]
    ELSE IF ToolNamed(name).providerId = "mcp"
    THEN [threw |-> FALSE, result |-> callToolMock(name, args), by |-> "mock"]
    ELSE [threw |-> TRUE, result |-> <<>>, by |-> "none"]

\* error.message of the Error a provider throws
ProviderError == <<"R","e","q","u","e","s","t"," ","f","a","i","l","e","d">>

(***************************************************************************)
(* OpenRouterMessageHandler                                                *)
(***************************************************************************)

\* processToolCalls, the loop: the names mcpManager.callTool is called with,
\* in order; a tool call whose tool is not available is skipped before the call.
RECURSIVE invokedTools(_)
invokedTools(toolCalls) ==
    IF toolCalls = <<>> THEN <<>>
    ELSE (IF hasToolAvailable(Head(toolCalls).name) THEN <<Head(toolCalls).name>> ELSE <<>>)
         \o invokedTools(Tail(toolCalls))

\* processToolCalls, the loop: `throws` says for every tool call whether
\* mcpManager.callTool raised.
RECURSIVE processEach(_, _, _)
processEach(toolCalls, throws, processedResponse) ==
    IF toolCalls = <<>> THEN processedResponse
    ELSE LET toolCall == Head(toolCalls)
             replacement ==
                 IF ~hasToolAvailable(toolCall.name)
                 THEN <<"[","T","o","o","l"," ">> \o toolCall.name \o <<" ","n","o","t"," ","f","o","u","n","d","."," ","P","l","e","a","s","e"," ","u","s","e"," ","o","n","e"," ","o","f"," ","t","h","e"," ","a","v","a","i","l","a","b","l","e"," ","t","o","o","l","s",".","]">>
                 ELSE IF Head(throws)
                 THEN <<"[","E","r","r","o","r"," ","e","x","e","c","u","t","i","n","g"," ","t","o","o","l"," ">> \o toolCall.name \o <<":", " ">> \o ProviderError \o <<"]">>
                 ELSE <<"[","T","o","o","l"," ">> \o toolCall.name \o <<" ","r","e","s","u","l","t",":"," ">>
                      \o ToolNamed(toolCall.name).result \o <<"]">>
         IN  processEach(Tail(toolCalls), Tail(throws),
                         replaceToolBlock(processedResponse, toolCall.name, replacement))

\* The outcomes of callTool that can occur for a list of tool calls.
Throws(toolCalls) ==
    {t \in [1..Len(toolCalls) -> BOOLEAN] :
        \A i \in 1..Len(toolCalls) :
            t[i] => hasToolAvailable(toolCalls[i].name) /\ MayThrow(toolCalls[i].name)}

\* The text generateResponse returns for a completion without content.
NoResponseGenerated == <<"N","o"," ","r","e","s","p","o","n","s","e"," ","g","e","n","e","r","a","t","e","d">>

\* Texts the LLM answers with: prose, prose with a call of an MCP tool, prose
\* with a call of a provider tool.
LLMResponses ==
    {<<"H","e","l","l","o","!"," ","H","o","w"," ","c","a","n"," ","I"," ","h","e","l","p","?">>,
     <<"L","e","t"," ","m","e"," ","c","h","e","c","k",".","\n","T","O","O","L",":"," ","c","a","l","c","u","l","a","t","o","r","\n","A","R","G","S",":"," ","{","\"","e","x","p","r","e","s","s","i","o","n","\"",":"," ","\"","2","+","2","\"","}","\n","R","E","A","S","O","N",":"," ","a","d","d"," ","t","h","e"," ","n","u","m","b","e","r","s","\n">>,
     <<"O","n","e"," ","m","o","m","e","n","t",".","\n","T","O","O","L",":"," ","c","r","m","_","l","o","o","k","u","p","\n","A","R","G","S",":"," ","{","\"","c","u","s","t","o","m","e","r","\"",":"," ","\"","A","\"","}","\n","R","E","A","S","O","N",":"," ","f","i","n","d"," ","t","h","e"," ","c","u","s","t","o","m","e","r","\n">>}

\* Texts of the LLM that carry tool calls, as the parts they are written
\* from: prose, and blocks in the TOOL/ARGS/REASON format of the system
\* prompt, one part per line. A reply with prose around one block, a block at
\* the end, two blocks of known tools in either order, a block naming a tool
\* that is not registered, a known tool followed by an unregistered one, a
\* block whose ARGS are not JSON (with and without the closing brace) followed
\* by a well-formed block, and prose alone.
ToolReplies ==
    <<<<[kind |-> "prose", text |-> <<"L","e","t"," ","m","e"," ","c","h","e","c","k",".">>, name |-> <<>>, args |-> <<>>, reason |-> <<>>],
        [kind |-> "block", text |-> <<>>, name |-> <<"c","a","l","c","u","l","a","t","o","r">>, args |-> <<"{","\"","e","\"",":"," ","\"","2","+","2","\"","}">>, reason |-> <<"a","d","d">>],
        [kind |-> "prose", text |-> <<"A","n","y","t","h","i","n","g"," ","e","l","s","e","?">>, name |-> <<>>, args |-> <<>>, reason |-> <<>>]>>,
      <<[kind |-> "prose", text |-> <<"O","n","e"," ","m","o","m","e","n","t",".">>, name |-> <<>>, args |-> <<>>, reason |-> <<>>],
        [kind |-> "block", text |-> <<>>, name |-> <<"c","a","l","c","u","l","a","t","o","r">>, args |-> <<"{","\"","e","\"",":"," ","\"","2","+","2","\"","}">>, reason |-> <<"a","d","d">>]>>,
      <<[kind |-> "block", text |-> <<>>, name |-> <<"c","a","l","c","u","l","a","t","o","r">>, args |-> <<"{","\"","e","\"",":"," ","\"","2","+","2","\"","}">>, reason |-> <<"a","d","d">>],
        [kind |-> "block", text |-> <<>>, name |-> <<"c","r","m","_","l","o","o","k","u","p">>, args |-> <<"{","\"","c","\"",":"," ","\"","A","\"","}">>, reason |-> <<"f","i","n","d">>]>>,
      <<[kind |-> "block", text |-> <<>>, name |-> <<"c","r","m","_","l","o","o","k","u","p">>, args |-> <<"{","\"","c","\"",":"," ","\"","A","\"","}">>, reason |-> <<"f","i","n","d">>],
        [kind |-> "block", text |-> <<>>, name |-> <<"c","a","l","c","u","l","a","t","o","r">>, args |-> <<"{","\"","e","\"",":"," ","\"","2","+","2","\"","}">>, reason |-> <<"a","d","d">>]>>,
      <<[kind |-> "prose", text |-> <<"H","m",".">>, name |-> <<>>, args |-> <<>>, reason |-> <<>>],
        [kind |-> "block", text |-> <<>>, name |-> <<"w","e","a","t","h","e","r">>, args |-> <<"{","\"","t","\"",":"," ","\"","n","o","w","\"","}">>, reason |-> <<"a","s","k">>]>>,
      <<[kind |-> "block", text |-> <<>>, name |-> <<"c","a","l","c","u","l","a","t","o","r">>, args |-> <<"{","\"","e","\"",":"," ","\"","2","+","2","\"","}">>, reason |-> <<"a","d","d">>],
        [kind |-> "block", text |-> <<>>, name |-> <<"w","e","a","t","h","e","r">>, args |-> <<"{","\"","t","\"",":"," ","\"","n","o","w","\"","}">>, reason |-> <<"a","s","k">>]>>,
      <<[kind |-> "block", text |-> <<>>, name |-> <<"c","r","m","_","l","o","o","k","u","p">>, args |-> <<"{","b","a","d","}">>, reason |-> <<"f","i","n","d">>],
        [kind |-> "block", text |-> <<>>, name |-> <<"c","a","l","c","u","l","a","t","o","r">>, args |-> <<"{","\"","e","\"",":"," ","\"","2","+","2","\"","}">>, reason |-> <<"a","d","d">>]>>,
      <<[kind |-> "block", text |-> <<>>, name |-> <<"c","r","m","_","l","o","o","k","u","p">>, args |-> <<"{","\"","c","\"",":"," ","\"","A","\"">>, reason |-> <<"f","i","n","d">>],
        [kind |-> "block", text |-> <<>>, name |-> <<"c","a","l","c","u","l","a","t","o","r">>, args |-> <<"{","\"","e","\"",":"," ","\"","2","+","2","\"","}">>, reason |-> <<"a","d","d">>]>>,
      <<[kind |-> "prose", text |-> <<"H","e","l","l","o","!"," ","H","o","w"," ","c","a","n"," ","I"," ","h","e","l","p","?">>, name |-> <<>>, args |-> <<>>, reason |-> <<>>]>>>>

\* The text of a part: a block is written as the format prescribes.
RenderPart(part) ==
    IF part.kind = "prose" THEN part.text
    ELSE <<"T","O","O","L",":"," ">> \o part.name \o <<"\n","A","R","G","S",":"," ">> \o part.args \o <<"\n","R","E","A","S","O","N",":"," ">> \o part.reason

\* The text of a reply: its parts, one per line.
RECURSIVE Render(_)
Render(parts) ==
    IF Len(parts) = 1 THEN RenderPart(parts[1])
    ELSE RenderPart(parts[1]) \o <<"\n">> \o Render(Tail(parts))

Rendered == [i \in 1..Len(ToolReplies) |-> Render(ToolReplies[i])]

ToolResponses == {Rendered[i] : i \in 1..Len(ToolReplies)}

\* extractToolCalls of every text the LLM answers with, tabulated once.
Decoded ==
    [r \in LLMResponses \cup ToolResponses \cup {NoResponseGenerated} |->
        extractToolCalls(r)]

\* processToolCalls with the MCP client connected, for every text the LLM
\* answers with and every outcome of its tool calls, tabulated once: the
\* loop over the tool calls, then the clean-up of the result notices.
Substituted ==
    [x \in UNION {{<<r, t>> : t \in Throws(Decoded[r])} :
                    r \in LLMResponses \cup ToolResponses} |->
        cleanupFrom(processEach(Decoded[x[1]], x[2], x[1]), 1)]

\* processToolCalls(toolCalls, originalResponse) for the tool calls decoded
\* from originalResponse
processToolCalls(originalResponse, throws) ==
    IF ~isConnected
    THEN originalResponse \o <<"\n","\n","(","T","o","o","l","s"," ","a","r","e"," ","c","u","r","r","e","n","t","l","y"," ","u","n","a","v","a","i","l","a","b","l","e","."," ","P","l","e","a","s","e"," ","t","r","y"," ","a","g","a","i","n"," ","l","a","t","e","r",".",")">>
    ELSE Substituted[<<originalResponse, throws>>]

\* checkRateLimit of OpenRouterMessageHandler: the counter and reset time it
\* leaves and the verdict it returns
checkRateLimitLLM(count, last, t) ==
    LET reset == t - last > rateLimitWindow
        c == (IF reset THEN 0 ELSE count) + 1
    IN  IF ~rateLimitEnabled
        THEN [messageCount |-> count, lastResetTime |-> last, allowed |-> TRUE,
              reset |-> FALSE]
        ELSE [messageCount |-> c,
              lastResetTime |-> IF reset THEN t ELSE last,
              allowed |-> c <= maxMessagesPerWindow,
              reset |-> reset]

\* getOrCreateUserContext: the map after the lookup, which creates a missing
\* entry and stamps the time of the interaction
getOrCreateUserContext(ctxs, userId) ==
    LET cs == IF userId \in DOMAIN ctxs THEN ctxs ELSE (userId :> EmptyContext) @@ ctxs
    IN  [cs EXCEPT ![userId].lastInteraction = now]

\* buildPromptWithContext
buildPromptWithContext(body, userContext) == body

\* A history that is never cut.
Truncate_keepAll(history) == history

\* conversationHistory.slice(-20) when the history is longer than 20 entries
Truncate(history) ==
    IF Len(history) > 20 THEN SubSeq(history, Len(history) - 19, Len(history))
    ELSE history

LLMReply(text) == [Response("", <<>>, <<>>) EXCEPT !.text = text]

\* OpenRouterMessageHandler.handleMessage(message) up to the call of the LLM:
\* a message without a body raises a TypeError at once; a message over the
\* limit is answered; any other message waits for the LLM. The entries of the
\* history are kept without their timestamps.
handleMessageLLM(from, body) ==
    LET rl == checkRateLimitLLM(messageCount, lastResetTime, now)
    IN  /\ handlerClass = "OpenRouterMessageHandler"
        /\ IF body = undefined
           THEN /\ lastReply' = [ErrorProcessingMessage EXCEPT !.to = from]
                /\ lastMessage' = [from |-> from, body |-> body, route |-> "catch",
                                   failure |-> "body"]
                /\ UNCHANGED <<messageCount, lastResetTime, sentInWindow,
                               customerContexts, pending>>
           ELSE /\ messageCount' = rl.messageCount
                /\ lastResetTime' = rl.lastResetTime
                /\ sentInWindow' = NextSentInWindow(from, rl.reset)
                /\ IF ~rl.allowed
                   THEN /\ lastReply' = [TooManyMessages EXCEPT !.to = from]
                        /\ lastMessage' = [from |-> from, body |-> body,
                                           route |-> "throttled", failure |-> "none"]
                        /\ UNCHANGED <<customerContexts, pending>>
                   ELSE /\ customerContexts' = getOrCreateUserContext(customerContexts, from)
                        /\ pending' = Append(pending,
                               [from |-> from, body |-> body,
                                prompt |-> buildPromptWithContext(body, customerContexts'[from])])
                        /\ lastMessage' = [from |-> from, body |-> body, route |-> "llm",
                                           failure |-> "none"]
                        /\ UNCHANGED lastReply
        /\ UNCHANGED <<handlerClass, lastCompletion, orders, now, isConnected, scriptPos>>

Remove(seq, i) == SubSeq(seq, 1, i - 1) \o SubSeq(seq, i + 1, Len(seq))

\* The rest of handleMessage once generateResponse resolved with `response`
\* for the i-th waiting call: the tool calls are decoded and processed, the
\* exchange is appended to the history, the final text is the reply.
llmResolves(i, response, throws) ==
    LET call == pending[i]
        toolCalls == Decoded[response]
        finalResponse == IF toolCalls # <<>> /\ isConnected
                         THEN processToolCalls(response, throws)
                         ELSE response
    IN  /\ i \in 1..Len(pending)
        /\ customerContexts' =
              [customerContexts EXCEPT ![call.from].conversationHistory =
                  Truncate(@ \o <<[role |-> "user", content |-> call.body],
                                  [role |-> "assistant", content |-> finalResponse]>>)]
        /\ pending' = Remove(pending, i)
        /\ lastCompletion' =
              IF toolCalls # <<>> /\ isConnected
              THEN [response |-> response, throws |-> throws,
                    invoked |-> invokedTools(toolCalls)]
              ELSE [response |-> response, throws |-> <<>>, invoked |-> <<>>]
        /\ lastReply' = [LLMReply(finalResponse) EXCEPT !.to = call.from]
        /\ lastMessage' = [from |-> call.from, body |-> call.body, route |-> "replied",
                           failure |-> IF toolCalls # <<>> /\ isConnected
                                          /\ \E k \in DOMAIN throws : throws[k]
                                       THEN "tool" ELSE "none"]
        /\ UNCHANGED <<handlerClass, orders, messageCount, lastResetTime, now,
                       isConnected, scriptPos, sentInWindow>>

\* A handleMessage that records the user's text before it calls the LLM, so
\* that a failed exchange leaves it in the history.
llmRejects_recordsUser(i) ==
    LET call == pending[i]
    IN  /\ i \in 1..Len(pending)
        /\ pending' = Remove(pending, i)
        /\ customerContexts' =
              [customerContexts EXCEPT ![call.from].conversationHistory =
                  Append(@, [role |-> "user", content |-> call.body])]
        /\ lastReply' = [ErrorProcessingMessage EXCEPT !.to = call.from]
        /\ lastMessage' = [from |-> call.from, body |-> call.body, route |-> "catch",
                           failure |-> "llm"]
        /\ UNCHANGED <<handlerClass, lastCompletion, orders, messageCount,
                       lastResetTime, now, isConnected, scriptPos, sentInWindow>>

\* A handleMessage without its catch: the rejection of generateResponse
\* reaches the caller and no reply is returned.
llmRejects_uncaught(i) ==
    LET call == pending[i]
    IN  /\ i \in 1..Len(pending)
        /\ pending' = Remove(pending, i)
        /\ lastMessage' = [from |-> call.from, body |-> call.body, route |-> "threw",
                           failure |-> "llm"]
        /\ UNCHANGED <<handlerClass, lastCompletion, customerContexts, orders, messageCount, lastReply,
                       lastResetTime, now, isConnected, scriptPos, sentInWindow>>

\* The rest of handleMessage once generateResponse rejected for the i-th
\* waiting call: the catch returns the apology.
llmRejects(i) ==
    LET call == pending[i]
    IN  /\ i \in 1..Len(pending)
        /\ pending' = Remove(pending, i)
        /\ lastReply' = [ErrorProcessingMessage EXCEPT !.to = call.from]
        /\ lastMessage' = [from |-> call.from, body |-> call.body, route |-> "catch",
                           failure |-> "llm"]
        /\ UNCHANGED <<handlerClass, lastCompletion, customerContexts, orders, messageCount,
                       lastResetTime, now, isConnected, scriptPos, sentInWindow>>

(***************************************************************************)
(* OpenRouterService                                                       *)
(***************************************************************************)

\* maxRetries of OpenRouterService.
openRouterMaxRetries == 3

retryDelay == 1000

\* What one call of client.chat.completions.create does: it rejects, or it
\* resolves with a completion whose first choice has a content, possibly
\* empty.
APIOutcomes ==
    {[ok |-> FALSE, content |-> <<>>],
     [ok |-> TRUE, content |-> <<>>],
     [ok |-> TRUE, content |-> <<"H","e","l","l","o","!"," ","H","o","w"," ","c","a","n"," ","I"," ","h","e","l","p","?">>]}

\* The operation generateResponse hands to retry, for one outcome of the API:
\* the content of the first choice, 'No response generated' when it is
\* empty, and the generic Error when the call failed.
operation(api) ==
    IF api.ok
    THEN [threw |-> FALSE, error |-> "",
          text |-> IF api.content = <<>> THEN NoResponseGenerated ELSE api.content]
    ELSE [threw |-> TRUE, error |-> "Failed to generate response", text |-> <<>>]

\* A retry that stops one attempt earlier.
RECURSIVE retry_stopsEarlier(_, _)
retry_stopsEarlier(script, retries) ==
    LET first == operation(Head(script))
    IN  IF ~first.threw \/ retries <= 1
        THEN [made |-> <<Head(script)>>, waits |-> <<>>, threw |-> first.threw,
              error |-> first.error, text |-> first.text]
        ELSE LET rest == retry_stopsEarlier(Tail(script), retries - 1)
             IN  [rest EXCEPT !.made = <<Head(script)>> \o @,
                              !.waits = <<retryDelay>> \o @]

\* retry(operation, retries): the operation is awaited; when it throws and
\* retries are left, the retry waits retryDelay and calls itself with one
\* retry less, otherwise it rethrows. script holds the outcomes of the API
\* calls in the order they are made; the result lists the calls made and the
\* waits between them.
RECURSIVE retry(_, _)
retry(script, retries) ==
    LET first == operation(Head(script))
    IN  IF ~first.threw \/ retries <= 0
        THEN [made |-> <<Head(script)>>, waits |-> <<>>, threw |-> first.threw,
              error |-> first.error, text |-> first.text]
        ELSE LET rest == retry(Tail(script), retries - 1)
             IN  [rest EXCEPT !.made = <<Head(script)>> \o @,
                              !.waits = <<retryDelay>> \o @]

\* generateResponse(prompt, useAdvancedModel, systemPrompt): the user message
\* of the request is the prompt; the call is retried with the default number
\* of retries.
generateResponse(prompt, script) ==
    [op |-> "generateResponse", prompt |-> prompt] @@ retry(script, openRouterMaxRetries)

(***************************************************************************)
(* WhatsAppClient                                                          *)
(***************************************************************************)

\* The WhatsAppMessage of queue item id: its sender and its text.
WhatsAppMessage(id) ==
    [from |-> IF id % 2 = 1 THEN "A" ELSE "B", body |-> <<"t","e","s","t"," ","m","e","s","s","a","g","e">>]

FallbackMessage == "Sorry, there was an error processing your message. Please try again later."

\* The sends of processMessage that fail after the reply went out, as if
\* nothing had been sent.
sendReply_rejectsAfterSend(f, sendOk, fallbackOk) ==
    /\ sent' = IF sendOk
               THEN Append(sent, [item |-> f.item, to |-> lastReply'.to,
                                  content |-> lastReply'.content])
               ELSE sent
    /\ processorRejects(f)

\* processMessage from line 145 on, as the processor of queue item f.item:
\* sendMessage of the reply; when that throws, the catch sends the fallback
\* text, and when that throws too the promise rejects with the transport's
\* Error. sendOk and fallbackOk are what client.sendMessage does with the two
\* calls.
sendReply(f, sendOk, fallbackOk) ==
    IF sendOk
    THEN /\ sent' = Append(sent, [item |-> f.item, to |-> lastReply'.to,
                                  content |-> lastReply'.content])
         /\ processorResolves(f)
    ELSE IF fallbackOk
    THEN /\ sent' = Append(sent, [item |-> f.item, to |-> WhatsAppMessage(f.msg).from,
                                  content |-> FallbackMessage])
         /\ processorResolves(f)
    ELSE /\ sent' = sent
         /\ processorRejects(f)

\* processMessage(message), run by the queue for item f.item, in the two steps
\* its awaits allow: handleMessage of the OpenRouterMessageHandler up to the
\* call of the LLM (a throttled message is answered and sent at once), and,
\* when the LLM has answered or failed, the rest of handleMessage and the
\* sends. completion holds the text of the LLM, and is empty when
\* generateResponse rejected.
processMessage(f, completion, sendOk, fallbackOk) ==
    LET message == WhatsAppMessage(f.msg)
    IN  \/ /\ pending = <<>>
           /\ handleMessageLLM(message.from, message.body)
           /\ IF lastMessage'.route = "llm"
              THEN UNCHANGED qvars
              ELSE sendReply(f, sendOk, fallbackOk)
        \/ /\ pending # <<>>
           /\ IF completion = <<>>
              THEN llmRejects(1)
              ELSE \E throws \in Throws(Decoded[completion[1]]) :
                      llmResolves(1, completion[1], throws)
           /\ sendReply(f, sendOk, fallbackOk)

(***************************************************************************)
(* Specifications                                                          *)
(***************************************************************************)

\* The sum of f over the set S.
RECURSIVE SumOver(_, _)
SumOver(S, f) ==
    IF S = {} THEN 0
    ELSE LET x == CHOOSE y \in S : TRUE IN f[x] + SumOver(S \ {x}, f)

\* Number of handleMessage calls explored by the order-flow specification.
MaxMessages == 6

\* Number of handleMessage calls explored by the LLM specification.
MaxTurns == 3

\* Number of handleMessage calls waiting for the LLM at a time.
MaxPending == 1

\* Number of calls explored beyond the rate limit of a window.
MaxOver == 2

\* Number of clock ticks explored; a tick is half a rate-limit window.
MaxTicks == 2

HandlerClasses == {"MessageHandler", "OpenRouterMessageHandler"}

InitHandler(class, connected) ==
    /\ handlerClass = class
    /\ customerContexts = [s \in {} |-> EmptyContext]
    /\ orders = <<>>
    /\ messageCount = 0
    /\ now = 0
    /\ lastResetTime = 0
    /\ isConnected = connected
    /\ pending = <<>>
    /\ lastReply = NoResponse
    /\ lastMessage = [from |-> "", body |-> <<>>, route |-> "init", failure |-> "none"]
    /\ scriptPos = 0
    /\ sentInWindow = [s \in Senders |-> 0]
    /\ lastCompletion = [response |-> <<>>, throws |-> <<>>, invoked |-> <<>>]

\* The clock (Date.now()) advances by half a window; in the LLM handler the
\* setInterval callback of the constructor runs when a window has passed.
Tick ==
    /\ now < MaxTicks * (rateLimitWindow \div 2)
    /\ now' = now + (rateLimitWindow \div 2)
    /\ IF handlerClass = "OpenRouterMessageHandler" /\ now' % rateLimitWindow = 0
       THEN /\ messageCount' = 0
            /\ lastResetTime' = now'
            /\ sentInWindow' = [s \in Senders |-> 0]
       ELSE UNCHANGED <<messageCount, lastResetTime, sentInWindow>>
    /\ UNCHANGED <<handlerClass, lastCompletion, customerContexts, orders, isConnected, pending,
                   lastReply, lastMessage, scriptPos>>
    /\ UNCHANGED qvars

Enqueue == (\E p \in Processors : enqueue(p)) /\ UNCHANGED <<hvars, sent>>

ProcessorResolves ==
    (\E f \in BagToSet(flights) : processorResolves(f)) /\ UNCHANGED <<hvars, sent>>

ProcessorRejects ==
    (\E f \in BagToSet(flights) : processorRejects(f)) /\ UNCHANGED <<hvars, sent>>

ProcessorRejectsUndefined ==
    (\E f \in BagToSet(flights) : processorRejectsUndefined(f)) /\ UNCHANGED <<hvars, sent>>

BackoffExpires ==
    (\E f \in BagToSet(flights) : backoffExpires(f)) /\ UNCHANGED <<hvars, sent>>

ClearQueue == clearQueue /\ UNCHANGED <<hvars, sent>>

\* The queue alone, with processors of every kind.
InitSpecQueue ==
    /\ InitQueue
    /\ InitHandler("MessageHandler", FALSE)

SpecQueue == InitSpecQueue /\ [][Enqueue \/ ProcessorResolves \/ ProcessorRejects \/ ProcessorRejectsUndefined \/ BackoffExpires \/ ClearQueue]_vars

\* The queue without clearQueue, where every processor invocation settles and
\* every timer of a backoff fires.
SpecQueueFair ==
    /\ InitSpecQueue
    /\ [][Enqueue \/ ProcessorResolves \/ ProcessorRejects \/ ProcessorRejectsUndefined \/ BackoffExpires]_vars
    /\ WF_vars(ProcessorResolves \/ ProcessorRejects \/ ProcessorRejectsUndefined)
    /\ WF_vars(BackoffExpires)

HandleOrderMessage ==
    /\ messageCount < MaxMessages
    /\ \E from \in Senders, body \in OrderBodies : handleMessage(from, body)
    /\ UNCHANGED qvars

\* A MessageHandler without customers and orders.
InitOrder ==
    /\ InitQueue
    /\ InitHandler("MessageHandler", FALSE)

\* MessageHandler driven through the order dialogue by two senders.
SpecOrder == InitOrder /\ [][HandleOrderMessage]_vars

\* Number of handleMessage calls explored by the order-dialogue specification.
MaxDialogue == 6

\* The two implementations of the order flow.
DialogueClasses == {"MessageHandler", "OrderHandler"}

HandleDialogueMessage ==
    /\ SumOver(Senders, sentInWindow) < MaxDialogue
    /\ \E from \in Senders, body \in DialogueBodies : handleMessage(from, body)
    /\ UNCHANGED qvars

HandleDialogueMessageOH ==
    /\ SumOver(Senders, sentInWindow) < MaxDialogue
    /\ \E from \in Senders, body \in DialogueBodies : handleMessageOH(from, body)
    /\ UNCHANGED qvars

InitDialogue ==
    /\ InitQueue
    /\ \E class \in DialogueClasses : InitHandler(class, FALSE)

SpecDialogue == InitDialogue /\ [][HandleDialogueMessage \/ HandleDialogueMessageOH]_vars

HandleRateMessage ==
    /\ messageCount < maxMessagesPerWindow + MaxOver
    /\ \E from \in Senders, body \in RateBodies : handleMessage(from, body)
    /\ UNCHANGED qvars

HandleRateMessageLLM ==
    /\ messageCount < maxMessagesPerWindow + MaxOver
    /\ Len(pending) < MaxPending
    /\ \E from \in Senders : handleMessageLLM(from, <<"t","e","s","t"," ","m","e","s","s","a","g","e">>)
    /\ UNCHANGED qvars

LLMResolvesProse ==
    /\ \E i \in 1..Len(pending) : llmResolves(i, <<"H","e","l","l","o","!"," ","H","o","w"," ","c","a","n"," ","I"," ","h","e","l","p","?">>, <<>>)
    /\ UNCHANGED qvars

\* Either handler driven up to and beyond the rate limit while the clock runs.
InitRate ==
    /\ InitQueue
    /\ \E class \in HandlerClasses : InitHandler(class, FALSE)

SpecRate == InitRate /\ [][HandleRateMessage \/ HandleRateMessageLLM \/ LLMResolvesProse \/ Tick]_vars

\* Number of handleMessage calls explored by the tool-call specification.
MaxToolTurns == 2

HandleToolMessage ==
    /\ messageCount < MaxToolTurns
    /\ Len(pending) < MaxPending
    /\ \E from \in Senders : handleMessageLLM(from, <<"t","e","s","t"," ","m","e","s","s","a","g","e">>)
    /\ UNCHANGED qvars

LLMResolvesWithTools ==
    /\ \E i \in 1..Len(pending), response \in ToolResponses :
          \E throws \in Throws(Decoded[response]) : llmResolves(i, response, throws)
    /\ UNCHANGED qvars

InitTools ==
    /\ InitQueue
    /\ \E connected \in BOOLEAN : InitHandler("OpenRouterMessageHandler", connected)

SpecTools == InitTools /\ [][HandleToolMessage \/ LLMResolvesWithTools]_vars

HandleMessage ==
    /\ messageCount < MaxTurns
    /\ \E from \in Senders, body \in LLMBodies \cup {undefined} : handleMessage(from, body)
    /\ UNCHANGED qvars

HandleMessageLLM ==
    /\ messageCount < MaxTurns
    /\ Len(pending) < MaxPending
    /\ \E from \in Senders, body \in LLMBodies \cup {undefined} : handleMessageLLM(from, body)
    /\ UNCHANGED qvars

LLMResolves ==
    /\ \E i \in 1..Len(pending), response \in LLMResponses :
          \E throws \in Throws(Decoded[response]) : llmResolves(i, response, throws)
    /\ UNCHANGED qvars

LLMRejects ==
    /\ \E i \in 1..Len(pending) : llmRejects(i)
    /\ UNCHANGED qvars

\* Either handler with an LLM and tools that can fail, the MCP client
\* connected or not.
InitLLM ==
    /\ InitQueue
    /\ \E class \in HandlerClasses, connected \in BOOLEAN : InitHandler(class, connected)

SpecLLM == InitLLM /\ [][HandleMessage \/ HandleMessageLLM \/ LLMResolves \/ LLMRejects]_vars

\* One sender writes to the OpenRouterMessageHandler until the rate limit is
\* passed; the LLM answers or fails.
HandleHistoryMessage ==
    /\ messageCount < maxMessagesPerWindow + MaxOver
    /\ pending = <<>>
    /\ handleMessageLLM("A", <<"t","e","s","t"," ","m","e","s","s","a","g","e">>)
    /\ UNCHANGED qvars

\* The LLM answers in prose or with a block for the calculator, which returns.
LLMResolvesHistory ==
    /\ \E response \in {<<"H","e","l","l","o","!"," ","H","o","w"," ","c","a","n"," ","I"," ","h","e","l","p","?">>,
                         <<"L","e","t"," ","m","e"," ","c","h","e","c","k",".","\n","T","O","O","L",":"," ","c","a","l","c","u","l","a","t","o","r","\n","A","R","G","S",":"," ","{","\"","e","x","p","r","e","s","s","i","o","n","\"",":"," ","\"","2","+","2","\"","}","\n","R","E","A","S","O","N",":"," ","a","d","d"," ","t","h","e"," ","n","u","m","b","e","r","s","\n">>} :
          llmResolves(1, response, [k \in 1..Len(Decoded[response]) |-> FALSE])
    /\ UNCHANGED qvars

InitHistory ==
    /\ InitQueue
    /\ InitHandler("OpenRouterMessageHandler", TRUE)

SpecHistory == InitHistory /\ [][HandleHistoryMessage \/ LLMResolvesHistory \/ LLMRejects]_vars

\* Messages handled in the intent specification.
MaxIntent == 2

HandleIntentMessage ==
    /\ messageCount < MaxIntent
    /\ \E from \in Senders, body \in IntentBodies : handleMessage(from, body)
    /\ UNCHANGED qvars

SpecIntent == InitOrder /\ [][HandleIntentMessage]_vars

\* Messages handled in the cancellation specification.
MaxCancel == 7

\* The order dialogue from its first message to the confirmation, and the
\* request to cancel.
CancelBodies ==
    {<<"p","l","a","c","e"," ","o","r","d","e","r">>,
     <<"o","r","d","e","r"," ","p","u","l","l","e","d","-","p","o","r","k">>,
     <<"o","r","d","e","r"," ","2"," ","c","a","r","t","o","n","s">>,
     <<"o","r","d","e","r"," ","t","o"," ","1"," ","M","a","i","n"," ","S","t",","," ","S","y","d","n","e","y",","," ","N","S","W",","," ","2","0","0","0">>,
     <<"c","o","n","f","i","r","m"," ","o","r","d","e","r">>,
     <<"c","a","n","c","e","l"," ","o","r","d","e","r">>}

HandleCancelMessage ==
    /\ SumOver(Senders, sentInWindow) < MaxCancel
    /\ \E from \in Senders, body \in CancelBodies : handleMessage(from, body)
    /\ UNCHANGED qvars

\* A caller of the OrderService (fulfilment, payment) moves an order to a
\* status of the OrderStatus enum.
UpdateOrderStatus ==
    /\ \E orderId \in 1..Len(orders),
          status \in {"PENDING", "CONFIRMED", "PROCESSING", "SHIPPED", "DELIVERED", "CANCELLED"} :
          /\ orders' = updateOrderStatus(orders, orderId, status).orders
          /\ lastOp' = [op |-> "updateOrderStatus", item |-> orderId]
    /\ UNCHANGED <<queue, isProcessing, items, flights, calls, unhandled, sent>>
    /\ UNCHANGED <<handlerClass, customerContexts, messageCount, lastResetTime, now,
                   isConnected, pending, lastReply, lastMessage, scriptPos, sentInWindow,
                   lastCompletion>>

\* A caller of the OrderService calls cancelOrder on a stored order.
CancelOrder ==
    /\ \E orderId \in 1..Len(orders) :
          LET r == cancelOrder(orders, orderId)
          IN  /\ orders' = r.orders
              /\ lastOp' = [op |-> IF r.threw THEN "cancelOrderThrew" ELSE "cancelOrder",
                            item |-> orderId]
    /\ UNCHANGED <<queue, isProcessing, items, flights, calls, unhandled, sent>>
    /\ UNCHANGED <<handlerClass, customerContexts, messageCount, lastResetTime, now,
                   isConnected, pending, lastReply, lastMessage, scriptPos, sentInWindow,
                   lastCompletion>>

SpecCancel == InitOrder /\ [][HandleCancelMessage \/ UpdateOrderStatus \/ CancelOrder]_vars

\* WhatsAppClient.handleIncomingMessage: the message is enqueued with
\* processMessage as its processor, which resolves or rejects with an Error.
HandleIncomingMessage == enqueue("flaky") /\ UNCHANGED <<hvars, sent>>

ProcessMessage ==
    \E f \in InFlight, sendOk \in BOOLEAN, fallbackOk \in BOOLEAN,
       completion \in {<<>>, <<<<"H","e","l","l","o","!"," ","H","o","w"," ","c","a","n"," ","I"," ","h","e","l","p","?">>>>} :
        processMessage(f, completion, sendOk, fallbackOk)

\* A WhatsAppClient with its queue and its OpenRouterMessageHandler; nothing
\* clears the queue.
InitClient ==
    /\ InitQueue
    /\ InitHandler("OpenRouterMessageHandler", FALSE)

SpecClient == InitClient /\ [][HandleIncomingMessage \/ ProcessMessage \/ BackoffExpires]_vars

\* Number of API outcomes scripted for one generateResponse.
MaxAttempts == 4

\* handleMessage from the return of generateResponse on, for the i-th waiting
\* call and a script of API outcomes.
GenerateResponse ==
    \E i \in 1..Len(pending), script \in [1..MaxAttempts -> APIOutcomes] :
        LET r == generateResponse(pending[i].prompt, script)
        IN  /\ IF r.threw THEN llmRejects(i) ELSE llmResolves(i, r.text, <<>>)
            /\ lastOp' = r @@ [item |-> i]
            /\ UNCHANGED <<queue, isProcessing, items, flights, calls, unhandled, sent>>

SpecRetry == InitClient /\ [][HandleMessageLLM \/ GenerateResponse]_vars

\* handleMessage from the return of generateResponse on, with the MCP client
\* connected, for every outcome of the invocations behind callTool: the tool
\* calls of the reply are processed in order, each with its callTool.
ResolveWithCallTool ==
    \E response \in LLMResponses :
    \E fails \in [1..Len(Decoded[response]) -> BOOLEAN] :
        LET toolCalls == Decoded[response]
            results == [k \in 1..Len(toolCalls) |->
                           callTool(toolCalls[k].name, toolCalls[k].arguments, fails[k])]
        IN  /\ isConnected
            /\ llmResolves(1, response, [k \in 1..Len(toolCalls) |-> results[k].threw])
            /\ lastOp' = [op |-> "callTool", item |-> Len(toolCalls), calls |-> toolCalls,
                          fails |-> fails, results |-> results]
            /\ UNCHANGED <<queue, isProcessing, items, flights, calls, unhandled, sent>>

SpecCallTool == InitHistory /\ [][HandleToolMessage \/ ResolveWithCallTool]_vars

(***************************************************************************)
(* Properties of MessageQueue                                              *)
(***************************************************************************)

Range(s) == {s[i] : i \in DOMAIN s}

\* The continuations pending for item i, in either phase.
PendingFor(i) == {f \in BagToSet(flights) : f.item = i}

\* C1: single-flight. At every moment at most one processor invocation of
\* the queue instance has not settled yet.
C1_SingleFlight == NumInFlight <= 1

\* C2: FIFO with head-of-line blocking. The processor is only ever invoked on
\* the head of the queue, enqueue appends at the tail, and the head leaves the
\* queue (other than by clearQueue) only when its own invocation succeeded or
\* its own retries are exhausted; until then everything else stays behind it.
C2_FifoHeadOfLine ==
    [][/\ \A i \in DOMAIN calls : calls'[i] # calls[i] => queue' # <<>> /\ Head(queue') = i
       /\ lastOp'.op = "enqueue" => queue' = Append(queue, lastOp'.item)
       /\ (queue' # queue /\ lastOp'.op \notin {"enqueue", "clear"}) =>
              /\ queue # <<>>
              /\ queue' = Tail(queue)
              /\ lastOp'.item = Head(queue)
              /\ lastOp'.op \in {"resolved", "dropped"}
              /\ lastOp'.op = "dropped" => items[Head(queue)].retryCount = maxRetries
      ]_vars

\* C3: every item has its own retry counter starting at 0, its processor is
\* invoked at most 1 + maxRetries times, it is removed right after its first
\* success, and a processor that fails every time is invoked exactly
\* 1 + maxRetries times and then dropped: every failure of an invocation is
\* followed by a retry of the item or by its removal.
C3_RetryBudget ==
    /\ \A i \in DOMAIN items :
          /\ calls[i] <= 1 + maxRetries
          /\ items[i].retryCount <= maxRetries
          /\ calls[i] = 0 => items[i].retryCount = 0
    /\ lastOp.op = "resolved" => lastOp.item \notin Range(queue)
    /\ lastOp.op = "dropped" =>
          /\ lastOp.item \notin Range(queue)
          /\ calls[lastOp.item] = 1 + maxRetries
    /\ lastOp.op \in {"retry", "typeError"} =>
          \E f \in PendingFor(lastOp.item) : f.phase = "backoff"

\* C4: a failing processor is contained by the queue: no rejection escapes
\* processQueue, and after a failure the item is waiting for its retry or has
\* been dropped and the loop went on to the next item.
C4_FailuresContained ==
    /\ unhandled = 0
    /\ lastOp.op \in {"retry", "typeError"} =>
          \E f \in PendingFor(lastOp.item) : f.phase = "backoff"
    /\ lastOp.op = "dropped" =>
          /\ lastOp.item \notin Range(queue)
          /\ (queue # <<>> => isProcessing /\ PendingFor(Head(queue)) # {})

\* C5: enqueue on an idle queue (empty, not processing) starts processing
\* before it returns: isQueueProcessing() is true, getQueueLength() is 1 and
\* the processor has been invoked exactly once, with the enqueued message.
C5_IdleEnqueueStarts ==
    [][(lastOp'.op = "enqueue" /\ queue = <<>> /\ ~isProcessing) =>
          LET i == lastOp'.item IN
          /\ isProcessing'
          /\ queue' = <<i>>
          /\ calls'[i] = 1
          /\ CopiesIn(Flight(i, items'[i].message, "proc"), flights') = 1
          /\ \A f \in BagToSet(flights') : f.item = i => f.phase = "proc"
      ]_vars

\* An enqueue on a queue that had worked before and gone idle again.
C5_Witness ==
    /\ lastOp.op = "enqueue"
    /\ lastOp.item = 2
    /\ queue = <<2>>
    /\ isProcessing
    /\ calls[2] = 1

(***************************************************************************)
(* Properties of the message handlers                                      *)
(***************************************************************************)

\* The stage of the sender's order draft, "none" without a draft.
DraftStage(s) ==
    IF s \in DOMAIN customerContexts /\ customerContexts[s].orderInProgress # <<>>
    THEN customerContexts[s].orderInProgress[1].stage
    ELSE "none"

\* C6 as stated: whatever fails while a message is handled (the LLM call, a
\* tool invocation, the order service, the message itself), the reply is the
\* generic apology addressed to the sender.
C6_AnyFailureGenericReply ==
    lastMessage.failure # "none" =>
        lastReply = [ErrorProcessingMessage EXCEPT !.to = lastMessage.from]

\* C6: handleMessage of either handler always returns a reply addressed to
\* the sender. A failure that reaches the catch of handleMessage (the LLM call
\* rejects, the message has no body) gives the generic apology; a tool
\* invocation that raises gives the LLM's text with an inline
\* "[Error executing tool ...]" notice carrying the failure message.
C6_FailuresAnswered ==
    /\ lastMessage.route \notin {"init", "llm"} => lastReply.to = lastMessage.from
    /\ lastMessage.failure \in {"llm", "body"} =>
          lastReply = [ErrorProcessingMessage EXCEPT !.to = lastMessage.from]
    /\ lastMessage.failure = "tool" =>
          /\ lastReply.content = ""
          /\ includes(lastReply.text, <<"[","E","r","r","o","r"," ","e","x","e","c","u","t","i","n","g"," ","t","o","o","l"," ">>)
          /\ includes(lastReply.text, ProviderError)

\* The LLM handler answered a message whose LLM call had failed.
C6_Witness ==
    /\ handlerClass = "OpenRouterMessageHandler"
    /\ lastMessage.failure = "llm"
    /\ lastMessage.from = "B"
    /\ lastReply = [ErrorProcessingMessage EXCEPT !.to = "B"]
    /\ "B" \in DOMAIN customerContexts

C8_PerCustomerLimit ==
    (handlerClass = "MessageHandler" /\ lastMessage.route = "throttled") =>
        sentInWindow[lastMessage.from] > maxMessagesPerWindow

\* C9: MessageHandler.handleMessage hands a message that is not throttled to
\* the order dialogue (handlePlaceOrder) if the sender already has an order
\* draft or the message classifies as PLACE_ORDER, and only then.
C9_DraftRoutesToOrderDialogue ==
    [][(lastMessage'.route \notin {"throttled", "catch"}) =>
          LET from == lastMessage'.from
              hadDraft == DraftStage(from) # "none"
          IN  (lastMessage'.route = "PLACE_ORDER") <=>
                  (hadDraft \/ detectIntent(lastMessage'.body) = "PLACE_ORDER")
      ]_vars

\* C10: the order dialogue round trip. A sender without a draft who sends the
\* five messages of Script is at PRODUCT_SELECTION after the first, at
\* QUANTITY_SELECTION after the second, at ADDRESS_COLLECTION after the third,
\* at CONFIRMATION after the fourth, answered with a summary whose total is
\* twice the carton price of pulled pork, and after the fifth has no draft and
\* exactly one order.
C10_OrderRoundTrip ==
    /\ scriptPos = 1 => DraftStage(ScriptSender) = "PRODUCT_SELECTION"
    /\ scriptPos = 2 => DraftStage(ScriptSender) = "QUANTITY_SELECTION"
    /\ scriptPos = 3 => DraftStage(ScriptSender) = "ADDRESS_COLLECTION"
    /\ scriptPos = 4 =>
          /\ DraftStage(ScriptSender) = "CONFIRMATION"
          /\ (lastMessage.from = ScriptSender /\ lastMessage.body = Script[4]) =>
                /\ lastReply.content = "Order Summary"
                /\ lastReply.args = <<2 * products[ProductById("pulled-pork")].cartonPrice>>
    /\ scriptPos = 5 =>
          /\ DraftStage(ScriptSender) = "none"
          /\ Cardinality({i \in 1..Len(orders) : orders[i].customerId = ScriptSender}) = 1

(***************************************************************************)
(* Properties of the order dialogue                                        *)
(***************************************************************************)

\* The message of a step contains the word
Says(body, word) == includes(Analysis[body].lower, word)

\* The step handled a message that was neither throttled nor failed on its
\* body.
Handled(route) == route \notin {"init", "throttled", "catch", "llm", "replied", "threw"}

\* C11: when a sender whose draft is at CONFIRMATION sends a message
\* containing 'cancel', the draft, the current product and the delivery
\* address are cleared, no order is created and no persisted order changes.
C11_CancelClearsDraft ==
    [][LET from == lastMessage'.from
       IN  (/\ Handled(lastMessage'.route)
            /\ DraftStage(from) = "CONFIRMATION"
            /\ Says(lastMessage'.body, <<"c","a","n","c","e","l">>))
           => /\ customerContexts'[from].orderInProgress = <<>>
              /\ customerContexts'[from].currentProduct = <<>>
              /\ customerContexts'[from].deliveryAddress = <<>>
              /\ orders' = orders]_vars

\* C12: when the order dialogue of MessageHandler processes a message
\* containing 'confirm' at CONFIRMATION, createOrder is called once with the
\* sender, the items of the draft and the stored address: on success exactly
\* one order with these values is added and the draft, the current product
\* and the address are cleared; on failure the apology is returned, the store
\* and the sender's context (stage CONFIRMATION, items) stay as they were.
C12_ConfirmCreatesOneOrder ==
    [][LET from == lastMessage'.from
           before == customerContexts[from]
       IN  (/\ handlerClass = "MessageHandler"
            /\ lastMessage'.route = "PLACE_ORDER"
            /\ DraftStage(from) = "CONFIRMATION"
            /\ Says(lastMessage'.body, <<"c","o","n","f","i","r","m">>))
           => IF lastMessage'.failure = "none"
              THEN /\ Len(orders') = Len(orders) + 1
                   /\ SubSeq(orders', 1, Len(orders)) = orders
                   /\ orders'[Len(orders')].customerId = from
                   /\ orders'[Len(orders')].items = before.orderInProgress[1].items
                   /\ orders'[Len(orders')].deliveryAddress = before.deliveryAddress
                   /\ lastReply'.args = <<orders'[Len(orders')].id>>
                   /\ customerContexts'[from].orderInProgress = <<>>
                   /\ customerContexts'[from].currentProduct = <<>>
                   /\ customerContexts'[from].deliveryAddress = <<>>
              ELSE /\ orders' = orders
                   /\ customerContexts'[from] = before
                   /\ lastReply'.content =
                         "Sorry, there was an error processing your order. Please try again."]_vars

\* A sender of MessageHandler confirmed its draft of 2 cartons of pulled pork:
\* the order is stored with the address given and the draft is gone.
C12_Witness ==
    /\ handlerClass = "MessageHandler"
    /\ lastMessage.route = "PLACE_ORDER"
    /\ lastMessage.from = "B"
    /\ Says(lastMessage.body, <<"c","o","n","f","i","r","m">>)
    /\ DraftStage("B") = "none"
    /\ Len(orders) = 1
    /\ orders[1].customerId = "B"
    /\ orders[1].items = <<[productId |-> "pulled-pork", quantity |-> 2]>>
    /\ orders[1].deliveryAddress[1].street = <<"o","r","d","e","r"," ","t","o"," ","1"," ","M","a","i","n"," ","S","t">>
    /\ lastReply.content = "Thank you! Your order has been confirmed."

\* The stage at which a draft awaits confirmation: CONFIRMATION in
\* MessageHandler.handlePlaceOrder, PAYMENT_PENDING in OrderHandler.
ConfirmationStages == {"CONFIRMATION", "PAYMENT_PENDING"}

\* The word that confirms the draft in the implementation that runs.
ConfirmWord == IF handlerClass = "OrderHandler" THEN <<"p","r","o","c","e","e","d">> ELSE <<"c","o","n","f","i","r","m">>

\* The sum of quantity x carton price over line items.
RECURSIVE CartonTotal(_)
CartonTotal(its) ==
    IF its = <<>> THEN 0
    ELSE its[1].quantity * products[ProductById(its[1].productId)].cartonPrice
         + CartonTotal(Tail(its))

\* C13: in both order flows, a message containing 'modify' that the dialogue
\* processes at the confirmation stage returns the draft to PRODUCT_SELECTION
\* with its line items cleared.
C13_ModifyClearsItems ==
    [][LET from == lastMessage'.from
       IN  (/\ lastMessage'.route = "PLACE_ORDER"
            /\ DraftStage(from) \in ConfirmationStages
            /\ Says(lastMessage'.body, <<"m","o","d","i","f","y">>)
            /\ ~Says(lastMessage'.body, ConfirmWord))
           => /\ customerContexts'[from].orderInProgress # <<>>
              /\ customerContexts'[from].orderInProgress[1].stage = "PRODUCT_SELECTION"
              /\ customerContexts'[from].orderInProgress[1].items = <<>>]_vars

\* C14: in both order flows, the summary rendered when a draft enters the
\* confirmation stage shows as grand total the sum over the draft's items of
\* quantity x carton price, and the quantity of an item is the first integer
\* of the quantity message ('order 2 cartons' gives 2).
C14_TotalIsCartonPrice ==
    [][LET from == lastMessage'.from
       IN  /\ (/\ lastMessage'.route = "PLACE_ORDER"
               /\ DraftStage(from) = "ADDRESS_COLLECTION"
               /\ customerContexts'[from].orderInProgress # <<>>
               /\ customerContexts'[from].orderInProgress[1].stage \in ConfirmationStages)
              => /\ lastReply'.content = "Order Summary"
                 /\ lastReply'.args =
                       <<CartonTotal(customerContexts'[from].orderInProgress[1].items)>>
           /\ (/\ lastMessage'.route = "PLACE_ORDER"
               /\ DraftStage(from) = "QUANTITY_SELECTION"
               /\ customerContexts'[from].orderInProgress # <<>>
               /\ customerContexts'[from].orderInProgress[1].stage = "ADDRESS_COLLECTION")
              => LET its == customerContexts'[from].orderInProgress[1].items
                 IN  /\ its # <<>>
                     /\ its[Len(its)].quantity = Analysis[lastMessage'.body].quantity
                     /\ lastMessage'.body = <<"o","r","d","e","r"," ","2"," ","c","a","r","t","o","n","s">> => its[Len(its)].quantity = 2]_vars

FourFields(body) ==
    LET fields == Analysis[body].parts
    IN  Len(fields) = 4 /\ \A i \in 1..4 : fields[i] # <<>>

\* C16: in both order flows, a message the dialogue processes at
\* ADDRESS_COLLECTION moves the draft to the confirmation stage if and only
\* if it splits on commas into exactly 4 non-empty trimmed fields; any other
\* message leaves the stage at ADDRESS_COLLECTION and stores no address.
C16_AddressNeedsFourFields ==
    [][LET from == lastMessage'.from
       IN  (/\ lastMessage'.route = "PLACE_ORDER"
            /\ DraftStage(from) = "ADDRESS_COLLECTION")
           => /\ customerContexts'[from].orderInProgress # <<>>
              /\ IF FourFields(lastMessage'.body)
                 THEN customerContexts'[from].orderInProgress[1].stage \in ConfirmationStages
                 ELSE /\ customerContexts'[from].orderInProgress[1].stage = "ADDRESS_COLLECTION"
                      /\ customerContexts'[from].deliveryAddress = <<>>]_vars

(***************************************************************************)
(* Properties of the tool-call substitution                                *)
(***************************************************************************)

\* The parts the last LLM text was written from.
LastParts ==
    ToolReplies[CHOOSE i \in 1..Len(ToolReplies) : Rendered[i] = lastCompletion.response]

IsBlock(part) == part.kind = "block"

\* The blocks of a reply, in the order of the text.
Blocks(parts) == SelectSeq(parts, IsBlock)

\* The last LLM text was one of ToolReplies and has been answered.
Replied ==
    /\ lastMessage.route = "replied"
    /\ lastCompletion.response \in ToolResponses

\* The last LLM text was one of ToolReplies whose blocks are all well formed,
\* and it went through processToolCalls.
Processed ==
    /\ isConnected
    /\ Replied
    /\ \A k \in 1..Len(Blocks(LastParts)) : IsJSONObject(Blocks(LastParts)[k].args)

BlockNames(parts) == [k \in 1..Len(Blocks(parts)) |-> Blocks(parts)[k].name]

NotFoundNotice(name) == <<"[","T","o","o","l"," ">> \o name \o <<" ","n","o","t"," ","f","o","u","n","d","."," ","P","l","e","a","s","e"," ","u","s","e"," ","o","n","e"," ","o","f"," ","t","h","e"," ","a","v","a","i","l","a","b","l","e"," ","t","o","o","l","s",".","]">>

ErrorNotice(name) == <<"[","E","r","r","o","r"," ","e","x","e","c","u","t","i","n","g"," ","t","o","o","l"," ">> \o name \o <<":", " ">> \o ProviderError \o <<"]">>

\* What stands for a block in the final reply: the notice for an unknown
\* tool, the notice for an invocation that raised, else the serialized result.
Replacement(block, threw) ==
    IF ~hasToolAvailable(block.name) THEN NotFoundNotice(block.name)
    ELSE IF threw THEN ErrorNotice(block.name)
    ELSE ToolNamed(block.name).result

\* The reply with every block replaced and the prose left where it was; k is
\* the number of blocks before the first of the parts.
RECURSIVE Expected(_, _, _)
Expected(parts, k, throws) ==
    LET part == parts[1]
        here == IF IsBlock(part) THEN Replacement(part, throws[k + 1]) ELSE part.text
        k2 == IF IsBlock(part) THEN k + 1 ELSE k
    IN  IF Len(parts) = 1 THEN here
        ELSE here \o <<"\n">> \o Expected(Tail(parts), k2, throws)

\* C17: for an LLM reply of prose, one well-formed block naming a known tool,
\* and further prose, the final reply is the original text with only the
\* block replaced by the tool's serialized result.
C17_SingleBlockSubstituted ==
    (/\ Processed
     /\ Len(Blocks(LastParts)) = 1
     /\ hasToolAvailable(Blocks(LastParts)[1].name)
     /\ ~lastCompletion.throws[1])
    => lastReply.text = Expected(LastParts, 0, lastCompletion.throws)

\* C18: for a reply with two or more well-formed blocks naming known tools,
\* the tools are invoked in the order of the blocks and every block is
\* replaced by the result of its own invocation, the text between the blocks
\* staying in place.
C18_ManyBlocksInOrder ==
    (/\ Processed
     /\ Len(Blocks(LastParts)) >= 2
     /\ \A k \in 1..Len(Blocks(LastParts)) : hasToolAvailable(Blocks(LastParts)[k].name))
    => /\ lastCompletion.invoked = BlockNames(LastParts)
       /\ lastReply.text = Expected(LastParts, 0, lastCompletion.throws)

\* C19: a block naming a tool that is not in the known tool set is not
\* invoked and is replaced by the 'not found' notice; handleMessage returns
\* the processed text; callTool is never called with an unknown name.
C19_UnknownToolNotInvoked ==
    Processed
    => /\ \A i \in 1..Len(lastCompletion.invoked) : hasToolAvailable(lastCompletion.invoked[i])
       /\ lastReply.content = ""
       /\ \A k \in 1..Len(Blocks(LastParts)) :
             ~hasToolAvailable(Blocks(LastParts)[k].name)
             => includes(lastReply.text, NotFoundNotice(Blocks(LastParts)[k].name))

\* C20: when the invocation of a decoded tool call raises, its block is
\* replaced by the error notice carrying the failure message, the other tool
\* calls of the reply are still invoked, and the handler returns the
\* processed reply, not the generic apology.
C20_FailingToolInlineNotice ==
    (Processed /\ \E k \in DOMAIN lastCompletion.throws : lastCompletion.throws[k])
    => /\ lastReply.content = ""
       /\ lastCompletion.invoked =
             SelectSeq(BlockNames(LastParts), hasToolAvailable)
       /\ \A k \in DOMAIN lastCompletion.throws :
             lastCompletion.throws[k]
             => includes(lastReply.text, ErrorNotice(Blocks(LastParts)[k].name))

\* The names of the blocks of a reply whose ARGS are JSON and whose tool is
\* known, in the order of the text.
RECURSIVE Executable(_)
Executable(blocks) ==
    IF blocks = <<>> THEN <<>>
    ELSE (IF IsJSONObject(blocks[1].args) /\ hasToolAvailable(blocks[1].name)
          THEN <<blocks[1].name>> ELSE <<>>) \o Executable(Tail(blocks))

\* C21: a block whose ARGS text is not valid JSON is skipped: no tool is
\* invoked for it, nothing is thrown, and every later well-formed block of the
\* reply is still decoded and executed.
C21_MalformedArgsSkipped ==
    (isConnected /\ Replied)
    => /\ lastReply.content = ""
       /\ lastCompletion.invoked = Executable(Blocks(LastParts))

\* Decoding and substitution applied to a text, every invocation returning.
Again(text) ==
    LET toolCalls == extractToolCalls(text)
    IN  IF toolCalls # <<>> /\ isConnected
        THEN [text |-> cleanupFrom(processEach(toolCalls, [k \in 1..Len(toolCalls) |-> FALSE],
                                               text), 1),
              invoked |-> invokedTools(toolCalls)]
        ELSE [text |-> text, invoked |-> <<>>]

\* C22: decoding and substitution applied to a final reply, which is its own
\* output, invokes no tool and returns the text unchanged; a reply without a
\* TOOL block is returned unchanged.
C22_SubstitutionIdempotent ==
    Replied
    => /\ Again(lastReply.text) = [text |-> lastReply.text, invoked |-> <<>>]
       /\ Decoded[lastCompletion.response] = <<>> => lastReply.text = lastCompletion.response

\* A reply with one tool block was substituted, and its final text is given
\* to the decoder again.
C22_Witness ==
    /\ Processed
    /\ lastCompletion.invoked = <<<<"c","a","l","c","u","l","a","t","o","r">>>>
    /\ lastReply.text = <<"O","n","e"," ","m","o","m","e","n","t",".","\n","{","\"","r","e","s","u","l","t","\"",":","4","}">>
    /\ lastReply.text # lastCompletion.response

(***************************************************************************)
(* Properties of WhatsAppClient                                            *)
(***************************************************************************)

\* The number of messages the transport delivered for queue item id.
Delivered(id) == Cardinality({k \in DOMAIN sent : sent[k].item = id})

\* C24: over all processing attempts of an enqueued message at most one
\* outbound message is delivered to the transport, and when the processor has
\* resolved exactly one has been delivered.
C24_SingleReply ==
    /\ \A id \in DOMAIN items : Delivered(id) <= 1
    /\ lastOp.op = "resolved" => Delivered(lastOp.item) = 1

\* A message whose first attempt failed in the transport was retried and
\* answered.
C24_Witness ==
    /\ lastOp.op = "resolved"
    /\ calls[lastOp.item] >= 2
    /\ Delivered(lastOp.item) = 1

(***************************************************************************)
(* Properties of order cancellation                                        *)
(***************************************************************************)

Cancellable == {"PENDING", "CONFIRMED"}

CannotBeCancelled == "Sorry, your order cannot be cancelled as it is already"

\* The step handled a request to cancel of a sender with an order.
CancelRequested ==
    /\ sentInWindow' # sentInWindow
    /\ lastMessage'.route = "CANCEL_ORDER"
    /\ getCustomerOrders(orders, lastMessage'.from) # <<>>

\* The step was a call of cancelOrder on a stored order.
CancelCalled ==
    /\ sentInWindow' = sentInWindow
    /\ lastOp'.op \in {"cancelOrder", "cancelOrderThrew"}
    /\ lastOp'.item \in 1..Len(orders)

\* C25: handleCancelOrder and cancelOrder change an order's status only from
\* PENDING or CONFIRMED to CANCELLED; when the sender's most recent order is
\* in another status it is left unchanged and the reply says it cannot be
\* cancelled, and cancelOrder on such an order raises without modifying it.
C25_CancellationStatusGated ==
    [][/\ (CancelRequested \/ CancelCalled)
          => \A id \in 1..Len(orders) :
                orders'[id] # orders[id]
                => /\ orders[id].status \in Cancellable
                   /\ orders'[id] = [orders[id] EXCEPT !.status = "CANCELLED", !.updatedAt = now]
       /\ CancelRequested
          => LET recent == getCustomerOrders(orders, lastMessage'.from)[1]
             IN  IF orders[recent].status \in Cancellable
                 THEN orders'[recent].status = "CANCELLED"
                 ELSE /\ orders' = orders
                      /\ lastReply'.content = CannotBeCancelled
                      /\ lastReply'.args = <<recent>>
       /\ CancelCalled
          => IF orders[lastOp'.item].status \in Cancellable
             THEN lastOp'.op = "cancelOrder" /\ orders'[lastOp'.item].status = "CANCELLED"
             ELSE lastOp'.op = "cancelOrderThrew" /\ orders' = orders]_vars

\* A sender asked to cancel an order that had been shipped and was told that
\* it cannot be cancelled.
C25_Witness ==
    /\ lastMessage.route = "CANCEL_ORDER"
    /\ lastReply.content = CannotBeCancelled
    /\ \E id \in 1..Len(orders) :
          /\ lastReply.args = <<id>>
          /\ orders[id].customerId = lastMessage.from
          /\ orders[id].status = "SHIPPED"

(***************************************************************************)
(* Properties of detectIntent                                              *)
(***************************************************************************)

\* The keyword rules in the order in which they apply.
Rules ==
    <<[intent |-> "ORDER_STATUS", keywords |-> {<<"o","r","d","e","r"," ","s","t","a","t","u","s">>, <<"t","r","a","c","k">>, <<"w","h","e","r","e"," ","i","s"," ","m","y"," ","o","r","d","e","r">>}],
      [intent |-> "CANCEL_ORDER", keywords |-> {<<"c","a","n","c","e","l">>}],
      [intent |-> "DELIVERY_INQUIRY", keywords |-> {<<"d","e","l","i","v","e","r","y">>, <<"s","h","i","p","p","i","n","g">>}],
      [intent |-> "PAYMENT", keywords |-> {<<"p","a","y">>, <<"p","a","y","m","e","n","t">>}],
      [intent |-> "PLACE_ORDER", keywords |-> {<<"o","r","d","e","r">>, <<"b","u","y">>, <<"p","u","r","c","h","a","s","e">>}],
      [intent |-> "PRODUCT_INQUIRY", keywords |-> {<<"p","r","o","d","u","c","t">>, <<"p","r","i","c","e">>, <<"c","o","s","t">>}],
      [intent |-> "BROWSE_PRODUCTS", keywords |-> {<<"m","e","n","u">>, <<"w","h","a","t">>, <<"a","v","a","i","l","a","b","l","e">>}]>>

\* The rules of which a keyword occurs in the lower-cased text.
Matching(lower) ==
    {k \in 1..Len(Rules) : \E word \in Rules[k].keywords : includes(lower, word)}

FirstRule(lower) ==
    IF Matching(lower) = {} THEN "GENERAL_INQUIRY"
    ELSE Rules[CHOOSE k \in Matching(lower) : \A j \in Matching(lower) : k <= j].intent

C27_ShowProductsBrowses ==
    (Handled(lastMessage.route) /\ lastMessage.body = <<"s","h","o","w"," ","m","e"," ","y","o","u","r"," ","p","r","o","d","u","c","t","s">>)
    => /\ lastMessage.route = "BROWSE_PRODUCTS"
       /\ lastReply.content = "Available Products"
       /\ \E k \in DOMAIN lastReply.quickReplies : lastReply.quickReplies[k] = "Order now"

(***************************************************************************)
(* Properties of the retry backoff                                         *)
(***************************************************************************)

\* The wait before the n-th retry, in milliseconds.
Backoff(n) == CASE n = 1 -> 1000 [] n = 2 -> 2000 [] n = 3 -> 4000

\* C28: the wait before the n-th retry of an item (n = 1, 2, 3) is
\* baseRetryDelay * 2^(n-1), that is 1000, 2000 and 4000 ms; the waits of an
\* item do not decrease and sum to 7000 ms when the three retries are used.
C28_ExponentialBackoff ==
    [][/\ \A id \in DOMAIN items :
             items'[id].retryCount # items[id].retryCount
             => LET n == items'[id].retryCount
                    wait == [item |-> id, msg |-> items[id].message, phase |-> "backoff",
                             delay |-> Backoff(n)]
                IN  /\ n = items[id].retryCount + 1
                    /\ n \in 1..3
                    /\ Backoff(n) = baseRetryDelay * (2 ^ (n - 1))
                    /\ CopiesIn(wait, flights') = CopiesIn(wait, flights) + 1
                    /\ n > 1 => Backoff(n - 1) <= Backoff(n)
       /\ \A f \in BagToSet(flights') :
             (f.phase = "backoff" /\ items'[f.item].retryCount = maxRetries /\ f.delay = Backoff(3))
             => Backoff(1) + Backoff(2) + f.delay = 7000]_vars

\* An item is waiting for its third retry.
C28_Witness ==
    \E f \in BagToSet(flights) :
        /\ f.phase = "backoff"
        /\ f.delay = 4000
        /\ items[f.item].retryCount = 3
        /\ calls[f.item] = 3

(***************************************************************************)
(* Properties of the rate-limit window                                     *)
(***************************************************************************)

History(ctxs, s) == IF s \in DOMAIN ctxs THEN ctxs[s].conversationHistory ELSE <<>>

\* The step is the end of a handleMessage that succeeded.
Exchanged == Len(pending') < Len(pending) /\ lastMessage'.route = "replied"

\* The history of the sender of the step with the exchange of the step
\* appended and nothing removed.
Appended ==
    History(customerContexts, lastMessage'.from)
        \o <<[role |-> "user", content |-> lastMessage'.body],
             [role |-> "assistant", content |-> lastReply'.text]>>

\* The last n entries of a sequence.
Latest(seq, n) == IF Len(seq) > n THEN SubSeq(seq, Len(seq) - n + 1, Len(seq)) ELSE seq

\* After handleMessage a history holds at most 20 entries, the most recent
\* ones in their order.
CappedFifo ==
    /\ \A s \in Senders : Len(History(customerContexts', s)) <= 20
    /\ Exchanged => History(customerContexts', lastMessage'.from) = Latest(Appended, 20)

\* C23 as stated: a history never holds more than 20 entries after
\* handleMessage, the retained entries are the most recent ones in their
\* order, and once the 21st entry has been appended exactly the oldest entry
\* is evicted.
C23_OldestEntryEvicted ==
    [][/\ CappedFifo
       /\ (Exchanged /\ Len(Appended) > 20)
          => Len(Appended) - Len(History(customerContexts', lastMessage'.from)) = 1]_vars

\* C23: a history never holds more than 20 entries after handleMessage, the
\* retained entries are the most recent ones in their order, and when the
\* exchange that brings the 21st and 22nd entry has been appended exactly the
\* two oldest entries, the oldest exchange, are evicted.
C23_OldestExchangeEvicted ==
    [][/\ CappedFifo
       /\ (Exchanged /\ Len(Appended) > 20)
          => /\ Len(Appended) = 22
             /\ History(customerContexts', lastMessage'.from) = Tail(Tail(Appended))]_vars

\* The eleventh exchange of a sender has been stored, after ten exchanges
\* with a substituted tool result in the first of them.
C23_Witness ==
    /\ lastMessage.route = "replied"
    /\ messageCount >= 11
    /\ Len(History(customerContexts, "A")) = 20
    /\ History(customerContexts, "A")[20].content # History(customerContexts, "A")[18].content

\* Every stored history alternates user and assistant, beginning with a user
\* turn.
Alternating(ctxs) ==
    \A s \in Senders :
        /\ Len(History(ctxs, s)) % 2 = 0
        /\ \A k \in 1..Len(History(ctxs, s)) :
              History(ctxs, s)[k].role = IF k % 2 = 1 THEN "user" ELSE "assistant"

\* C30: a successfully handled message appends the user's text and then the
\* final reply; a throttled message and a message whose handling failed
\* append nothing; so every stored history has even length and alternates
\* user and assistant from a user turn on, also after truncation.
C30_HistoryOfExchanges ==
    [][/\ Exchanged
          => /\ History(customerContexts', lastMessage'.from) = Latest(Appended, 20)
             /\ lastReply'.text = IF lastCompletion'.invoked = <<>>
                                  THEN lastCompletion'.response
                                  ELSE Substituted[<<lastCompletion'.response,
                                                     lastCompletion'.throws>>]
       /\ ~Exchanged
          => \A s \in Senders : History(customerContexts', s) = History(customerContexts, s)
       /\ Alternating(customerContexts')]_vars

\* A throttled message left a truncated history as it was.
C30_Witness ==
    /\ lastMessage.route = "throttled"
    /\ lastReply.content = TooManyMessages.content
    /\ messageCount > maxMessagesPerWindow
    /\ Len(History(customerContexts, "A")) = 20
    /\ Alternating(customerContexts)

(***************************************************************************)
(* Properties of the LLM call                                              *)
(***************************************************************************)

\* C31: the input handed to generateResponse depends on the stored history of
\* the sender: for a sender with earlier turns the prompt of a waiting call is
\* more than the body of the current message.
C31_PromptCarriesHistory ==
    \A i \in 1..Len(pending) :
        History(customerContexts, pending[i].from) # <<>>
            => pending[i].prompt # pending[i].body

\* The last step was a generateResponse whose API calls all failed.
AllCallsFailed ==
    /\ lastOp.op = "generateResponse"
    /\ \A k \in 1..Len(lastOp.made) : ~lastOp.made[k].ok

\* The last step was a generateResponse with a successful API call.
SomeCallSucceeded ==
    /\ lastOp.op = "generateResponse"
    /\ \E k \in 1..Len(lastOp.made) : lastOp.made[k].ok

\* What holds after every generateResponse whatever the number of attempts: a
\* failed one raises the generic error and the handler answers with its
\* apology, a successful one returns the text of the first successful call,
\* which is the last call made, and the waits between calls are of 1 s.
RetryOutcome ==
    /\ AllCallsFailed =>
          /\ lastOp.threw /\ lastOp.error = "Failed to generate response"
          /\ lastMessage.route = "catch"
    /\ SomeCallSucceeded =>
          /\ ~lastOp.threw
          /\ \A k \in 1..Len(lastOp.made) : lastOp.made[k].ok <=> k = Len(lastOp.made)
          /\ lastOp.text = operation(lastOp.made[Len(lastOp.made)]).text
          /\ lastMessage.route = "replied" /\ lastReply.text = lastOp.text
    /\ lastOp.op = "generateResponse" =>
          /\ Len(lastOp.waits) = Len(lastOp.made) - 1
          /\ \A k \in 1..Len(lastOp.waits) : lastOp.waits[k] = 1000

\* C32 as stated: when every call of the completions API fails,
\* generateResponse makes 3 attempts in total, 1 s apart, and raises 'Failed
\* to generate response'; when an attempt succeeds its text is returned and
\* no further attempt is made.
C32_ThreeAttempts ==
    [][Len(pending') < Len(pending) =>
          /\ RetryOutcome'
          /\ AllCallsFailed' => Len(lastOp'.made) = 3]_vars

\* C32: when every call of the completions API fails, generateResponse makes
\* 4 attempts in total, the first call and 3 retries, with 3 waits of 1 s
\* between them, and raises 'Failed to generate response'; when an attempt
\* succeeds its text is returned and no further attempt is made.
C32_FourAttempts ==
    [][Len(pending') < Len(pending) =>
          /\ lastOp'.op = "generateResponse"
          /\ RetryOutcome'
          /\ AllCallsFailed' => Len(lastOp'.made) = 4 /\ Len(lastOp'.waits) = 3]_vars

C32_Witness ==
    /\ AllCallsFailed
    /\ Len(lastOp.made) = 4
    /\ lastMessage.route = "catch"
    /\ lastReply.content = ErrorProcessingMessage.content

(***************************************************************************)
(* Properties of MCPManager.callTool                                       *)
(***************************************************************************)

\* C33: callTool returns the result produced by the tool provider or raises:
\* when the invocation of the tool fails, callTool raises, so that the reply
\* carries the error notice of the tool, and no other result is returned in
\* its place; when it does not fail, callTool returns the provider's result.
C33_FailureReachesCaller ==
    [][Len(pending') < Len(pending) /\ lastOp'.op = "callTool" =>
          \A k \in 1..Len(lastOp'.calls) :
              IF lastOp'.fails[k]
              THEN /\ lastOp'.results[k].threw
                   /\ includes(lastReply'.text, ErrorNotice(lastOp'.calls[k].name))
              ELSE /\ ~lastOp'.results[k].threw
                   /\ lastOp'.results[k].result = ToolNamed(lastOp'.calls[k].name).result]_vars

(***************************************************************************)
(* Properties of the removal of queue items                                *)
(***************************************************************************)

\* The items a step removes from the queue.
Removed == {id \in 1..Len(items) :
               /\ \E k \in 1..Len(queue) : queue[k] = id
               /\ ~\E k \in 1..Len(queue') : queue'[k] = id}

\* C34: an item leaves the queue only right after its own processor
\* invocation succeeded, after its own processor failed 1 + maxRetries times,
\* or through clearQueue; the completion of one item's processor never
\* removes another item.
C34_OwnCompletionRemoves ==
    [][\A id \in Removed :
          \/ lastOp'.op = "clear"
          \/ lastOp'.op = "resolved" /\ lastOp'.item = id
          \/ /\ lastOp'.op = "dropped" /\ lastOp'.item = id
             /\ items[id].retryCount = maxRetries]_vars

(***************************************************************************)
(* Properties of the progress of the queue                                 *)
(***************************************************************************)

\* C35: when every processor invocation settles, with any value, and
\* clearQueue is not called, every enqueued item is eventually removed: once
\* no more items arrive the queue becomes empty with isQueueProcessing()
\* false and stays so, and it never stays non-empty without a processing loop.
C35_QueueDrains == <>[](queue = <<>> /\ ~isProcessing /\ flights = EmptyBag)

(***************************************************************************)
(* Properties of the handling of retried messages                          *)
(***************************************************************************)

\* The messages of sender s that WhatsAppClient has enqueued.
EnqueuedFrom(s) == {id \in 1..Len(items) : WhatsAppMessage(items[id].message).from = s}

\* The entries of the given role in the turn history of sender s.
Entries(s, role) ==
    {k \in 1..Len(History(customerContexts, s)) :
        History(customerContexts, s)[k].role = role}

\* C36: over all queue attempts the handler's effects are applied at most
\* once per enqueued message: the turn history of a sender holds at most one
\* user entry and one assistant entry for each of the sender's messages, also
\* when the queue retries a message because sending the reply failed.
C36_EffectsAtMostOnce ==
    \A s \in Senders :
        /\ Cardinality(Entries(s, "user")) <= Cardinality(EnqueuedFrom(s))
        /\ Cardinality(Entries(s, "assistant")) <= Cardinality(EnqueuedFrom(s))

(***************************************************************************)
(* Properties of the persisted order                                       *)
(***************************************************************************)

\* The step persisted a new order.
OrderCreated == Len(orders') = Len(orders) + 1

\* The addresses a user can have entered at the address step: the first four
\* fields of a message with at least four comma-separated fields.
EnteredAddresses ==
    {<<[street |-> Analysis[b].parts[1], city |-> Analysis[b].parts[2],
        state |-> Analysis[b].parts[3], postcode |-> Analysis[b].parts[4],
        country |-> "Australia"]>> :
        b \in {x \in DialogueBodies : Len(Analysis[x].parts) >= 4}}

\* C37: in both order flows the order persisted on confirmation has the
\* sender as its customer, the line items of the draft at confirmation as its
\* items, and the address the user supplied at the address step as its
\* delivery address.
C37_OrderReflectsEntries ==
    [][OrderCreated =>
          LET from == lastMessage'.from
              order == orders'[Len(orders')]
          IN  /\ order.customerId = from
              /\ order.items = customerContexts[from].orderInProgress[1].items
              /\ order.deliveryAddress \in EnteredAddresses
              /\ handlerClass = "MessageHandler"
                    => order.deliveryAddress = customerContexts[from].deliveryAddress]_vars

\* The grand total of the order summary in the implementation that runs.
RenderedTotal(its) ==
    IF handlerClass = "OrderHandler" THEN SummaryTotalOH(its) ELSE SummaryTotal(its)

\* C38: the totalAmount stored on the order created at confirmation equals
\* the grand total that the order summary showed for the same line items.
C38_StoredTotalIsSummaryTotal ==
    [][OrderCreated =>
          LET order == orders'[Len(orders')]
          IN  order.totalAmount = RenderedTotal(order.items)]_vars

(***************************************************************************)
(* Properties of the order draft                                           *)
(***************************************************************************)

\* The draft of sender s is consistent with its stage.
DraftConsistent(s) ==
    LET context == customerContexts[s]
        draft == context.orderInProgress[1]
    IN  context.orderInProgress # <<>> =>
          /\ draft.stage \in {"PRODUCT_SELECTION", "QUANTITY_SELECTION",
                              "ADDRESS_COLLECTION", "CONFIRMATION"}
          /\ draft.stage = "QUANTITY_SELECTION" => context.currentProduct # <<>>
          /\ draft.stage \in {"ADDRESS_COLLECTION", "CONFIRMATION"} =>
                /\ draft.items # <<>>
                /\ \A k \in 1..Len(draft.items) : draft.items[k].quantity >= 1
          /\ draft.stage = "CONFIRMATION" =>
                /\ context.deliveryAddress # <<>>
                /\ context.deliveryAddress[1].street # <<>>
                /\ context.deliveryAddress[1].city # <<>>
                /\ context.deliveryAddress[1].state # <<>>
                /\ context.deliveryAddress[1].postcode # <<>>

\* C39: in every state reachable through MessageHandler.handleMessage the
\* draft of every sender has one of the four stages; at QUANTITY_SELECTION a
\* current product is set; at ADDRESS_COLLECTION and CONFIRMATION the draft
\* has at least one line item and every quantity is at least 1; at
\* CONFIRMATION a delivery address with four non-empty fields is stored.
C39_DraftConsistency ==
    handlerClass = "MessageHandler" =>
        \A s \in DOMAIN customerContexts : DraftConsistent(s)

C39_Witness ==
    /\ handlerClass = "MessageHandler"
    /\ lastMessage.route = "PLACE_ORDER"
    /\ DraftStage("A") = "CONFIRMATION"
    /\ customerContexts["A"].orderInProgress[1].items =
          <<[productId |-> "pulled-pork", quantity |-> 2]>>
    /\ customerContexts["A"].deliveryAddress[1].city = <<"S","y","d","n","e","y">>
    /\ DraftStage("B") = "QUANTITY_SELECTION"
    /\ customerContexts["B"].currentProduct # <<>>

(***************************************************************************)
(* Properties of sender isolation                                          *)
(***************************************************************************)

\* The orders of the store whose customer is not s, in the order of the store.
OrdersOfOthers(ords, s) == SelectSeq(ords, LAMBDA o : o.customerId # s)

\* C40: handling a message from a sender creates or changes only that
\* sender's context (draft, current product, address, history) and only
\* orders whose customer is that sender: the context and the orders of every
\* other sender are left as they were, and every sender has at most one
\* draft.
C40_SenderIsolation ==
    [][LET from == lastMessage'.from
       IN  /\ \A s \in DOMAIN customerContexts \ {from} :
                 /\ s \in DOMAIN customerContexts'
                 /\ customerContexts'[s] = customerContexts[s]
           /\ DOMAIN customerContexts' \subseteq DOMAIN customerContexts \cup {from}
           /\ OrdersOfOthers(orders', from) = OrdersOfOthers(orders, from)
           /\ \A s \in DOMAIN customerContexts' :
                 Len(customerContexts'[s].orderInProgress) <= 1]_vars

C40_Witness ==
    /\ lastMessage.from = "A"
    /\ Says(lastMessage.body, <<"c","o","n","f","i","r","m">>)
    /\ Len(orders) = 1
    /\ orders[1].customerId = "A"
    /\ DraftStage("A") = "none"
    /\ DraftStage("B") = "PRODUCT_SELECTION"

=============================================================================
